---- MODULE Spec2Model ----
(***************************************************************************)
(* Khmer text-analysis core of andyjphu/cambo: the orthographic-cluster    *)
(* parser (khmerParser.ts), the lazy dictionary loader                     *)
(* (dictionaryLoader.ts) and the cluster-level bidirectional maximum       *)
(* matching segmenter (wordSegmentation.ts).                               *)
(*                                                                         *)
(* A JavaScript string is a sequence of UTF-16 code units; a character is  *)
(* modelled by its code unit (an integer), so text[i] and charCodeAt agree.*)
(* A nullable value is NULL (the empty tuple) or Some(v) (the 1-tuple).    *)
(***************************************************************************)
EXTENDS Integers, Sequences, FiniteSets, TLC

VARIABLES
    extendedDictionary,  \* dictionaryLoader.ts: DictionaryEntry[] | null
    loadPromise,         \* dictionaryLoader.ts: pending extended load | null
    isLoading,           \* dictionaryLoader.ts: boolean
    extLoads,            \* every extended load started so far: id -> stage/outcome
    wordListSet,         \* dictionaryLoader.ts: Set<string> | null
    wordListPromise,     \* dictionaryLoader.ts: pending word-list load | null
    wordListLoads,       \* every word-list load started so far: id -> stage/outcome
    ensureWaiters,       \* ensureWordListLoaded calls suspended at their await
    dictionaryWords,     \* wordSegmentation.ts: Set<string> | null
    dictionaryMap,       \* wordSegmentation.ts: Map<string, DictionaryEntry> | null
    userDictionary,      \* userDictionary.ts: the localStorage item | null
    op,                  \* the operation that ran last
    arg,                 \* its argument (a string), or the input not yet consumed
    ret                  \* what it returned, as a record (a parse: the cluster list)

vars == <<extendedDictionary, loadPromise, isLoading, extLoads, wordListSet,
          wordListPromise, wordListLoads, ensureWaiters, dictionaryWords,
          dictionaryMap, userDictionary, op, arg, ret>>

loaderVars == <<extendedDictionary, loadPromise, isLoading, extLoads, wordListSet,
                wordListPromise, wordListLoads, ensureWaiters>>

cacheVars == <<dictionaryWords, dictionaryMap>>

storeVars == <<userDictionary>>

NULL == << >>
Some(v) == <<v>>
Val(o) == o[1]

(***************************************************************************)
(* Bounds of the model.                                                    *)
(***************************************************************************)
\* longest input string handed to parseKhmerText
MaxLen == 4
\* longest input string handed to segmentText under SpecSeg
MaxSegLen == 5
\* loads started per lazily loaded resource
MaxLoads == 2
\* ensureWordListLoaded calls suspended at one time
MaxWaiters == 1

(***************************************************************************)
(* khmerParser.ts: classification tables.                                  *)
(***************************************************************************)
CONSONANTS == (6016..6044) \cup (6047..6050)
INDEP_VOWELS == 6051..6067
DEP_VOWELS == 6070..6085
SIGNS == {6086, 6087} \cup (6089..6099)
COENG == 6098
NUMERALS == 6112..6121
PUNCTUATION == {6100, 6101, 6102, 6104, 6105, 6106}
\* ' ' and U+200B, the two characters classifyChar calls a space
SPACE == 32
ZWSP == 8203

classifyChar(char) ==
    IF char = SPACE \/ char = ZWSP THEN "space"
    ELSE IF char \in CONSONANTS THEN "consonant"
    ELSE IF char \in INDEP_VOWELS THEN "indep_vowel"
    ELSE IF char \in DEP_VOWELS THEN "vowel"
    ELSE IF char = COENG THEN "coeng"
    ELSE IF char \in SIGNS THEN "sign"
    ELSE IF char \in NUMERALS THEN "numeral"
    ELSE IF char \in PUNCTUATION THEN "punctuation"
    ELSE "other"

Component(char, type) == [char |-> char, type |-> type, codepoint |-> char]

(***************************************************************************)
(* khmerParser.ts: parseKhmerText.  A loop of the source is a recursive    *)
(* operator over the loop's state st = [i, components, text]: i is the     *)
(* 1-based read position, components and text what the loop has appended. *)
(***************************************************************************)
\* an ill-formed variant: a run cluster takes one character only
RunLoopOneChar(text, type, st) ==
    [i |-> st.i + 1,
     components |-> Append(st.components, Component(text[st.i], type)),
     text |-> Append(st.text, text[st.i])]

\* the three `while (classifyChar(text[i]) === type)` run loops
RECURSIVE RunLoop(_, _, _)
RunLoop(text, type, st) ==
    IF st.i <= Len(text) /\ classifyChar(text[st.i]) = type
    THEN RunLoop(text, type,
                 [i |-> st.i + 1,
                  components |-> Append(st.components, Component(text[st.i], type)),
                  text |-> Append(st.text, text[st.i])])
    ELSE st

\* an ill-formed variant: the coeng is consumed but not appended to the text
RECURSIVE SubscriptLoopDropsCoeng(_, _)
SubscriptLoopDropsCoeng(text, st) ==
    IF /\ st.i <= Len(text)
       /\ text[st.i] = COENG
       /\ st.i + 1 <= Len(text)
       /\ text[st.i + 1] \in CONSONANTS
    THEN SubscriptLoopDropsCoeng(text,
             [i |-> st.i + 2,
              components |-> st.components
                             \o <<Component(COENG, "coeng"),
                                  Component(text[st.i + 1], "subscript")>>,
              text |-> st.text \o <<text[st.i + 1]>>])
    ELSE st

\* an ill-formed variant: a coeng takes whatever character follows it
RECURSIVE SubscriptLoopAnyNext(_, _)
SubscriptLoopAnyNext(text, st) ==
    IF /\ st.i <= Len(text)
       /\ text[st.i] = COENG
       /\ st.i + 1 <= Len(text)
    THEN SubscriptLoopAnyNext(text,
             [i |-> st.i + 2,
              components |-> st.components
                             \o <<Component(COENG, "coeng"),
                                  Component(text[st.i + 1], "subscript")>>,
              text |-> st.text \o <<COENG, text[st.i + 1]>>])
    ELSE st

\* `while (text[i] === COENG && i + 1 < text.length)`: coeng + consonant pairs
RECURSIVE SubscriptLoop(_, _)
SubscriptLoop(text, st) ==
    IF /\ st.i <= Len(text)
       /\ text[st.i] = COENG
       /\ st.i + 1 <= Len(text)
       /\ text[st.i + 1] \in CONSONANTS
    THEN SubscriptLoop(text,
             [i |-> st.i + 2,
              components |-> st.components
                             \o <<Component(COENG, "coeng"),
                                  Component(text[st.i + 1], "subscript")>>,
              text |-> st.text \o <<COENG, text[st.i + 1]>>])
    ELSE st

\* an ill-formed variant: a base takes no dependent vowel
VowelLoopSkipped(text, st) == st

\* `while (DEP_VOWELS.has(text[i]))`
RECURSIVE VowelLoop(_, _)
VowelLoop(text, st) ==
    IF st.i <= Len(text) /\ text[st.i] \in DEP_VOWELS
    THEN VowelLoop(text,
             [i |-> st.i + 1,
              components |-> Append(st.components, Component(text[st.i], "vowel")),
              text |-> Append(st.text, text[st.i])])
    ELSE st

\* `while (SIGNS.has(text[i]) && text[i] !== COENG)`
RECURSIVE SignLoop(_, _)
SignLoop(text, st) ==
    IF st.i <= Len(text) /\ text[st.i] \in SIGNS /\ text[st.i] # COENG
    THEN SignLoop(text,
             [i |-> st.i + 1,
              components |-> Append(st.components, Component(text[st.i], "sign")),
              text |-> Append(st.text, text[st.i])])
    ELSE st

\* the cluster built from a base consonant or independent vowel at position i
BaseCluster(text, i) ==
    LET type == classifyChar(text[i])
        base == [i |-> i + 1,
                 components |-> <<Component(text[i], type)>>,
                 text |-> <<text[i]>>]
    IN SignLoop(text, VowelLoop(text, SubscriptLoop(text, base)))

\* one iteration of the outer `while (i < text.length)`: the cluster pushed
\* and the position after it
ParseStep(text, i) ==
    LET char == text[i]
        type == classifyChar(char)
        empty == [i |-> i, components |-> << >>, text |-> << >>]
    IN IF type = "space"
       THEN [i |-> i + 1,
             cluster |-> [text |-> <<char>>, type |-> "space",
                          components |-> <<Component(char, "space")>>]]
       ELSE IF type \in {"other", "numeral", "punctuation"}
       THEN LET st == RunLoop(text, type, empty)
            IN [i |-> st.i,
                cluster |-> [text |-> st.text, type |-> type,
                             components |-> st.components]]
       ELSE IF type \in {"consonant", "indep_vowel"}
       THEN LET st == BaseCluster(text, i)
            IN [i |-> st.i,
                cluster |-> [text |-> st.text, type |-> "consonant",
                             components |-> st.components]]
       ELSE [i |-> i + 1,
             cluster |-> [text |-> <<char>>, type |-> type,
                          components |-> <<Component(char, type)>>]]

RECURSIVE ParseFrom(_, _, _)
ParseFrom(text, i, clusters) ==
    IF i <= Len(text)
    THEN LET s == ParseStep(text, i)
         IN ParseFrom(text, s.i, Append(clusters, s.cluster))
    ELSE clusters

parseKhmerText(text) == ParseFrom(text, 1, << >>)

(***************************************************************************)
(* Strings.                                                                *)
(***************************************************************************)
RECURSIVE Concat(_)
Concat(ss) == IF ss = << >> THEN << >> ELSE Head(ss) \o Concat(Tail(ss))

StringsUpTo(alphabet, n) == UNION {[1..k -> alphabet] : k \in 0..n}

(***************************************************************************)
(* Dictionary data.  The core dictionary is the literal array of           *)
(* dictionaryCore.ts; the extended dictionary and the word list are the    *)
(* JSON files the loader fetches.  A few short words stand in for each:    *)
(* a word is its string, an entry its khmer key and a gloss that tells     *)
(* which array the entry came from.                                        *)
(***************************************************************************)
KA == 6016
KHA == 6017
KO == 6018
NGO == 6020
AA == 6070

\* a word of nine clusters, one more than a candidate span of the scans holds
LongWord == <<NGO, NGO, NGO, NGO, NGO, NGO, NGO, NGO, NGO>>

coreDictionary ==
    << [khmer |-> <<KA>>, english |-> "core"],
       [khmer |-> <<KA, KHA>>, english |-> "core"] >>

\* /data/dictionaryExtended.json
ExtendedData ==
    << [khmer |-> <<KHA, KA, AA>>, english |-> "extended"],
       [khmer |-> <<KHA, KHA>>, english |-> "extended"],
       [khmer |-> <<KA>>, english |-> "extended"],
       [khmer |-> <<KO>>, english |-> "extended"],
       [khmer |-> LongWord, english |-> "extended"] >>

Keys(entries) == {entries[k].khmer : k \in 1..Len(entries)}

\* /data/wordList.json: the words of both dictionaries, without definitions
WordListData == Keys(coreDictionary) \cup Keys(ExtendedData)

\* a word list that holds a word of the extended dictionary and no core word
PartialWordList == {<<KHA, KHA>>}

\* what a successfully parsed word list can be: the list, an empty array,
\* or a list that lacks words of the dictionaries
WordListPayloads == {WordListData, {}, PartialWordList}

(***************************************************************************)
(* dictionaryCore.ts / dictionaryLoader.ts: lookups.                       *)
(***************************************************************************)
\* Map.set over an array in order: the last entry of a key wins
RECURSIVE MapOfEntries(_, _)
MapOfEntries(entries, map) ==
    IF entries = << >> THEN map
    ELSE LET e == Head(entries)
         IN MapOfEntries(Tail(entries),
                [w \in DOMAIN map \cup {e.khmer} |->
                    IF w = e.khmer THEN e ELSE map[w]])

\* Map.set guarded by `!dictionaryMap.has(entry.khmer)`: the first entry wins
RECURSIVE MapAddMissing(_, _)
MapAddMissing(entries, map) ==
    IF entries = << >> THEN map
    ELSE LET e == Head(entries)
         IN MapAddMissing(Tail(entries),
                IF e.khmer \in DOMAIN map THEN map
                ELSE [w \in DOMAIN map \cup {e.khmer} |->
                         IF w = e.khmer THEN e ELSE map[w]])

EmptyMap == [w \in {} |-> NULL]

khmerToEntryMap == MapOfEntries(coreDictionary, EmptyMap)

lookupKhmer(word) ==
    IF word \in DOMAIN khmerToEntryMap THEN Some(khmerToEntryMap[word]) ELSE NULL

\* Array.find: the first entry with the key
RECURSIVE Find(_, _)
Find(entries, word) ==
    IF entries = << >> THEN NULL
    ELSE IF Head(entries).khmer = word THEN Some(Head(entries))
    ELSE Find(Tail(entries), word)

lookupExtended(khmer) ==
    IF extendedDictionary = NULL THEN NULL
    ELSE Find(Val(extendedDictionary), khmer)

(***************************************************************************)
(* wordSegmentation.ts: initDictionary and the two queries.  The cache is  *)
(* built on the first query and kept; WordsAfterInit / MapAfterInit are    *)
(* dictionaryWords / dictionaryMap as initDictionary() leaves them.        *)
(***************************************************************************)
\* `if (wordList && wordList.size > 0) ... else ...` of initDictionary
BuildWords(wordList, extended) ==
    IF wordList # NULL /\ Cardinality(Val(wordList)) > 0
    THEN Val(wordList)
    ELSE Keys(coreDictionary)
            \cup (IF extended # NULL THEN Keys(Val(extended)) ELSE {})

\* `dictionaryMap = new Map(); ...` of initDictionary
BuildMap(extended) ==
    LET core == MapOfEntries(coreDictionary, EmptyMap)
    IN IF extended # NULL THEN MapAddMissing(Val(extended), core) ELSE core

BuiltWords == BuildWords(wordListSet, extendedDictionary)

BuiltMap == BuildMap(extendedDictionary)

WordsAfterInit == IF dictionaryWords # NULL THEN dictionaryWords ELSE Some(BuiltWords)

MapAfterInit == IF dictionaryWords # NULL THEN dictionaryMap ELSE Some(BuiltMap)

initDictionary ==
    /\ dictionaryWords' = WordsAfterInit
    /\ dictionaryMap' = MapAfterInit

isKnownWord(word) == word \in Val(WordsAfterInit)

\* whether getDictionaryEntry returns before it reaches initDictionary()
EntryFoundBeforeMap(word) == lookupKhmer(word) # NULL \/ lookupExtended(word) # NULL

getDictionaryEntry(word) ==
    IF lookupKhmer(word) # NULL THEN lookupKhmer(word)
    ELSE IF lookupExtended(word) # NULL THEN lookupExtended(word)
    ELSE IF MapAfterInit # NULL /\ word \in DOMAIN Val(MapAfterInit)
    THEN Some(Val(MapAfterInit)[word])
    ELSE NULL

(***************************************************************************)
(* wordSegmentation.ts: forwardMaxMatch / backwardMaxMatch / segmentText.  *)
(* Positions are the source's 0-based cluster indices; clusters[pos] of    *)
(* the source is clusters[pos + 1] here.                                   *)
(***************************************************************************)
maxClusters == 8

Min(a, b) == IF a < b THEN a ELSE b

RECURSIVE Sum(_)
Sum(ns) == IF ns = << >> THEN 0 ELSE Head(ns) + Sum(Tail(ns))

clustersToText(clusters, start, end) ==
    Concat([k \in 1..(end - start) |-> clusters[start + k].text])

\* `while (endPos < clusters.length && clusterCount < numClusters)`
RECURSIVE FwdEndPos(_, _, _, _)
FwdEndPos(clusters, endPos, clusterCount, numClusters) ==
    IF endPos < Len(clusters) /\ clusterCount < numClusters
    THEN FwdEndPos(clusters, endPos + 1,
                   IF clusters[endPos + 1].type # "space"
                   THEN clusterCount + 1 ELSE clusterCount,
                   numClusters)
    ELSE endPos

\* an ill-formed variant: the end of the shortest known candidate, or -1
FwdMatchShortest(clusters, pos, numClusters) ==
    LET sizes == {n \in 1..numClusters :
                     isKnownWord(clustersToText(clusters, pos,
                                                FwdEndPos(clusters, pos, 0, n)))}
    IN IF sizes = {} THEN -1
       ELSE FwdEndPos(clusters, pos, 0,
                      CHOOSE n \in sizes : \A m \in sizes : n <= m)

\* `for (numClusters = ...; numClusters > 0; numClusters--)`: the end of the
\* longest known candidate starting at pos, or -1
RECURSIVE FwdMatch(_, _, _)
FwdMatch(clusters, pos, numClusters) ==
    IF numClusters <= 0 THEN -1
    ELSE LET endPos == FwdEndPos(clusters, pos, 0, numClusters)
         IN IF isKnownWord(clustersToText(clusters, pos, endPos))
            THEN endPos
            ELSE FwdMatch(clusters, pos, numClusters - 1)

\* an ill-formed variant: the unknown word is one cluster, without lookahead
UnknownEndAtOnce(clusters, unknownEndPos, maxC) == unknownEndPos

\* `while (unknownEndPos < clusters.length)`: the end of the unknown span
RECURSIVE UnknownEnd(_, _, _)
UnknownEnd(clusters, unknownEndPos, maxC) ==
    IF unknownEndPos < Len(clusters)
    THEN IF clusters[unknownEndPos + 1].type = "space" THEN unknownEndPos
         ELSE IF FwdMatch(clusters, unknownEndPos,
                          Min(maxC, Len(clusters) - unknownEndPos)) # -1
         THEN unknownEndPos
         ELSE UnknownEnd(clusters, unknownEndPos + 1, maxC)
    ELSE unknownEndPos

Word(text, startChar, endChar, confidence, match) ==
    [text |-> text, startIndex |-> startChar, endIndex |-> endChar,
     confidence |-> confidence, dictionaryMatch |-> match]

\* a forward scan whose unknown word advances charPos by clusters, not characters
RECURSIVE FwdLoopCountsClusters(_, _, _, _, _)
FwdLoopCountsClusters(clusters, pos, charPos, results, maxC) ==
    IF pos < Len(clusters)
    THEN IF clusters[pos + 1].type = "space"
         THEN FwdLoopCountsClusters(clusters, pos + 1,
                      charPos + Len(clusters[pos + 1].text), results, maxC)
         ELSE LET endPos == FwdMatch(clusters, pos, Min(maxC, Len(clusters) - pos))
              IN IF endPos # -1
                 THEN LET candidate == clustersToText(clusters, pos, endPos)
                          endChar == charPos + Len(candidate)
                      IN FwdLoopCountsClusters(clusters, endPos, endChar,
                             Append(results,
                                    Word(candidate, charPos, endChar, "high",
                                         getDictionaryEntry(candidate))),
                             maxC)
                 ELSE LET unknownEndPos == UnknownEnd(clusters, pos + 1, maxC)
                          unknownText == clustersToText(clusters, pos, unknownEndPos)
                          endChar == charPos + (unknownEndPos - pos)
                      IN FwdLoopCountsClusters(clusters, unknownEndPos, endChar,
                             Append(results,
                                    Word(unknownText, charPos, endChar, "low", NULL)),
                             maxC)
    ELSE results

\* `while (pos < clusters.length)` of forwardMaxMatch
RECURSIVE FwdLoop(_, _, _, _, _)
FwdLoop(clusters, pos, charPos, results, maxC) ==
    IF pos < Len(clusters)
    THEN IF clusters[pos + 1].type = "space"
         THEN FwdLoop(clusters, pos + 1,
                      charPos + Len(clusters[pos + 1].text), results, maxC)
         ELSE LET endPos == FwdMatch(clusters, pos, Min(maxC, Len(clusters) - pos))
              IN IF endPos # -1
                 THEN LET candidate == clustersToText(clusters, pos, endPos)
                          endChar == charPos + Len(candidate)
                      IN FwdLoop(clusters, endPos, endChar,
                             Append(results,
                                    Word(candidate, charPos, endChar, "high",
                                         getDictionaryEntry(candidate))),
                             maxC)
                 ELSE LET unknownEndPos == UnknownEnd(clusters, pos + 1, maxC)
                          unknownText == clustersToText(clusters, pos, unknownEndPos)
                          endChar == charPos + Len(unknownText)
                      IN FwdLoop(clusters, unknownEndPos, endChar,
                             Append(results,
                                    Word(unknownText, charPos, endChar, "low", NULL)),
                             maxC)
    ELSE results

forwardMaxMatch(clusters) == FwdLoop(clusters, 0, 0, << >>, maxClusters)

\* `while (startPos > 0 && clusterCount < numClusters)`
RECURSIVE BwdStartPos(_, _, _, _)
BwdStartPos(clusters, startPos, clusterCount, numClusters) ==
    IF startPos > 0 /\ clusterCount < numClusters
    THEN BwdStartPos(clusters, startPos - 1,
                     IF clusters[startPos].type # "space"
                     THEN clusterCount + 1 ELSE clusterCount,
                     numClusters)
    ELSE startPos

\* the start of the longest known candidate ending at pos, or -1
RECURSIVE BwdMatch(_, _, _)
BwdMatch(clusters, pos, numClusters) ==
    IF numClusters <= 0 THEN -1
    ELSE LET startPos == BwdStartPos(clusters, pos, 0, numClusters)
         IN IF isKnownWord(clustersToText(clusters, startPos, pos))
            THEN startPos
            ELSE BwdMatch(clusters, pos, numClusters - 1)

\* `while (pos > 0)` of backwardMaxMatch
RECURSIVE BwdLoop(_, _, _, _, _)
BwdLoop(clusters, pos, charPos, results, maxC) ==
    IF pos > 0
    THEN IF clusters[pos].type = "space"
         THEN BwdLoop(clusters, pos - 1, charPos - Len(clusters[pos].text),
                      results, maxC)
         ELSE LET startPos == BwdMatch(clusters, pos, Min(maxC, pos))
              IN IF startPos # -1
                 THEN LET candidate == clustersToText(clusters, startPos, pos)
                          startChar == charPos - Len(candidate)
                      IN BwdLoop(clusters, startPos, startChar,
                             <<Word(candidate, startChar, charPos, "high",
                                    getDictionaryEntry(candidate))>> \o results,
                             maxC)
                 ELSE LET singleText == clusters[pos].text
                          startChar == charPos - Len(singleText)
                      IN BwdLoop(clusters, pos - 1, startChar,
                             <<Word(singleText, startChar, charPos, "low", NULL)>>
                                 \o results,
                             maxC)
    ELSE results

\* a backward scan that starts charPos at the number of clusters
backwardMaxMatchCountsClusters(clusters) ==
    BwdLoop(clusters, Len(clusters), Len(clusters), << >>, maxClusters)

\* `const totalCharLen = clusters.reduce(...)`, then the loop
backwardMaxMatch(clusters) ==
    BwdLoop(clusters, Len(clusters),
            Sum([k \in 1..Len(clusters) |-> Len(clusters[k].text)]),
            << >>, maxClusters)

\* the characters /[\s\u200B]/ matches
WHITESPACE ==
    (9..13) \cup {32, 160, 5760} \cup (8192..8202) \cup {8232, 8233, 8239, 8287,
    12288, 65279} \cup {ZWSP}

\* the characters /\s/ matches
REGEX_S == WHITESPACE \ {ZWSP}

\* an ill-formed variant: only ' ' is removed
StripSpaces(text) == SelectSeq(text, LAMBDA c : c # SPACE)

\* text.replace(/[\s\u200B]+/g, '')
StripWhitespace(text) == SelectSeq(text, LAMBDA c : c \notin WHITESPACE)

HighCount(words) ==
    Cardinality({k \in 1..Len(words) : words[k].confidence = "high"})

\* a reconciliation that gives ties to the backward result
ChoosePrefersBackward(forwardResult, backwardResult) ==
    IF Len(forwardResult) # Len(backwardResult)
    THEN IF Len(forwardResult) < Len(backwardResult)
         THEN forwardResult ELSE backwardResult
    ELSE IF HighCount(forwardResult) > HighCount(backwardResult)
         THEN forwardResult ELSE backwardResult

\* a reconciliation that takes the result with more segments
ChoosePrefersLonger(forwardResult, backwardResult) ==
    IF Len(forwardResult) # Len(backwardResult)
    THEN IF Len(forwardResult) > Len(backwardResult)
         THEN forwardResult ELSE backwardResult
    ELSE IF HighCount(forwardResult) >= HighCount(backwardResult)
         THEN forwardResult ELSE backwardResult

\* segmentText, `let chosen`
Choose(forwardResult, backwardResult) ==
    IF Len(forwardResult) # Len(backwardResult)
    THEN IF Len(forwardResult) < Len(backwardResult)
         THEN forwardResult ELSE backwardResult
    ELSE IF HighCount(forwardResult) >= HighCount(backwardResult)
         THEN forwardResult ELSE backwardResult

\* an ill-formed variant: exactly 80% is not yet high
OverallConfidenceAbove(words) ==
    LET highCount == HighCount(words)
        totalCount == Len(words)
    IN IF totalCount = 0 THEN "high"
       ELSE IF 5 * highCount > 4 * totalCount THEN "high"
       ELSE IF 2 * highCount >= totalCount THEN "medium"
       ELSE "low"

\* ratio >= 0.8 / ratio >= 0.5 with ratio = highCount / totalCount: the
\* quotient of two small integers is rounded to the double nearest to it and
\* so are the literals, hence the comparison is that of the exact fractions
OverallConfidence(words) ==
    LET highCount == HighCount(words)
        totalCount == Len(words)
    IN IF totalCount = 0 THEN "high"
       ELSE IF 5 * highCount >= 4 * totalCount THEN "high"
       ELSE IF 2 * highCount >= totalCount THEN "medium"
       ELSE "low"

segmentText(text) ==
    LET cleanText == StripWhitespace(text)
        clusters == parseKhmerText(cleanText)
        nonSpaceClusters == SelectSeq(clusters, LAMBDA c : c.type # "space")
    IN IF cleanText = << >> \/ nonSpaceClusters = << >>
       THEN [words |-> << >>, originalText |-> text, method |-> "dictionary",
             overallConfidence |-> "high"]
       ELSE LET forwardResult == forwardMaxMatch(nonSpaceClusters)
                backwardResult == backwardMaxMatch(nonSpaceClusters)
                chosen == Choose(forwardResult, backwardResult)
            IN [words |-> chosen, originalText |-> text, method |-> "dictionary",
                overallConfidence |-> OverallConfidence(chosen)]

\* whether segmentText(text) reaches forwardMaxMatch, hence initDictionary()
SegmentTextInitialises(text) ==
    LET cleanText == StripWhitespace(text)
    IN /\ cleanText # << >>
       /\ SelectSeq(parseKhmerText(cleanText), LAMBDA c : c.type # "space") # << >>

(***************************************************************************)
(* khmerDictionary.ts: the romanization tables.  A romanized or phonetic   *)
(* string is the sequence of its UTF-16 code units.                        *)
(***************************************************************************)
\* an object literal: the function from each key to its value
TableOf(pairs) ==
    [key \in {pair[1] : pair \in pairs} |->
        (CHOOSE pair \in pairs : pair[1] = key)[2]]

consonantRomanization ==
    TableOf({
        <<6016, [initial |-> <<107>>, series |-> 1]>>,
        <<6017, [initial |-> <<107, 104>>, series |-> 1]>>,
        <<6018, [initial |-> <<107>>, series |-> 2]>>,
        <<6019, [initial |-> <<107, 104>>, series |-> 2]>>,
        <<6020, [initial |-> <<110, 103>>, series |-> 2]>>,
        <<6021, [initial |-> <<99, 104>>, series |-> 1]>>,
        <<6022, [initial |-> <<99, 104, 104>>, series |-> 1]>>,
        <<6023, [initial |-> <<99, 104>>, series |-> 2]>>,
        <<6024, [initial |-> <<99, 104, 104>>, series |-> 2]>>,
        <<6025, [initial |-> <<241>>, series |-> 2]>>,
        <<6026, [initial |-> <<100>>, series |-> 1]>>,
        <<6027, [initial |-> <<116, 104>>, series |-> 1]>>,
        <<6028, [initial |-> <<100>>, series |-> 2]>>,
        <<6029, [initial |-> <<116, 104>>, series |-> 2]>>,
        <<6030, [initial |-> <<110>>, series |-> 1]>>,
        <<6031, [initial |-> <<116>>, series |-> 1]>>,
        <<6032, [initial |-> <<116, 104>>, series |-> 1]>>,
        <<6033, [initial |-> <<116>>, series |-> 2]>>,
        <<6034, [initial |-> <<116, 104>>, series |-> 2]>>,
        <<6035, [initial |-> <<110>>, series |-> 2]>>,
        <<6036, [initial |-> <<98>>, series |-> 1]>>,
        <<6037, [initial |-> <<112, 104>>, series |-> 1]>>,
        <<6038, [initial |-> <<112>>, series |-> 2]>>,
        <<6039, [initial |-> <<112, 104>>, series |-> 2]>>,
        <<6040, [initial |-> <<109>>, series |-> 2]>>,
        <<6041, [initial |-> <<121>>, series |-> 2]>>,
        <<6042, [initial |-> <<114>>, series |-> 2]>>,
        <<6043, [initial |-> <<108>>, series |-> 2]>>,
        <<6044, [initial |-> <<118>>, series |-> 2]>>,
        <<6047, [initial |-> <<115>>, series |-> 1]>>,
        <<6048, [initial |-> <<104>>, series |-> 1]>>,
        <<6049, [initial |-> <<108>>, series |-> 1]>>,
        <<6050, [initial |-> <<39>>, series |-> 1]>> })

\* vowelRomanization['']
inherent == [series1 |-> <<226>>, series2 |-> <<244>>]

vowelRomanization ==
    TableOf({
        <<6070, [series1 |-> <<257>>, series2 |-> <<257>>]>>,
        <<6071, [series1 |-> <<277>>, series2 |-> <<301>>]>>,
        <<6072, [series1 |-> <<101, 105>>, series2 |-> <<299>>]>>,
        <<6073, [series1 |-> <<339, 774>>, series2 |-> <<339, 774>>]>>,
        <<6074, [series1 |-> <<339>>, series2 |-> <<339>>]>>,
        <<6075, [series1 |-> <<335>>, series2 |-> <<365>>]>>,
        <<6076, [series1 |-> <<111>>, series2 |-> <<363>>]>>,
        <<6077, [series1 |-> <<117, 259>>, series2 |-> <<117, 335>>]>>,
        <<6078, [series1 |-> <<97, 101, 117>>, series2 |-> <<101, 117>>]>>,
        <<6079, [series1 |-> <<339, 259>>, series2 |-> <<339, 259>>]>>,
        <<6080, [series1 |-> <<105, 277>>, series2 |-> <<105, 277>>]>>,
        <<6081, [series1 |-> <<233>>, series2 |-> <<233>>]>>,
        <<6082, [series1 |-> <<234>>, series2 |-> <<234>>]>>,
        <<6083, [series1 |-> <<97, 105>>, series2 |-> <<101, 121>>]>>,
        <<6084, [series1 |-> <<97, 117>>, series2 |-> <<111>>]>>,
        <<6085, [series1 |-> <<97, 117>>, series2 |-> <<335, 117>>]>> })

\* signEffects: the `append` of each sign that has an entry
signEffects ==
    TableOf({
        <<6086, [append |-> Some(<<109>>)]>>,
        <<6087, [append |-> Some(<<104>>)]>>,
        <<6091, [append |-> NULL]>>,
        <<6089, [append |-> NULL]>>,
        <<6090, [append |-> NULL]>>,
        <<6098, [append |-> NULL]>> })

\* the two register shifters romanizeCluster tests for
MUUSIKATOAN == 6089
TRIISAP == 6090

toPhoneticMap ==
    TableOf({
        <<<<107>>, <<107>>>>,
        <<<<107, 104>>, <<107, 104>>>>,
        <<<<110, 103>>, <<110, 103>>>>,
        <<<<99, 104>>, <<99, 104>>>>,
        <<<<99, 104, 104>>, <<99, 104, 104>>>>,
        <<<<241>>, <<110, 121>>>>,
        <<<<100>>, <<100>>>>,
        <<<<116, 104>>, <<116, 104>>>>,
        <<<<116>>, <<116>>>>,
        <<<<110>>, <<110>>>>,
        <<<<98>>, <<98>>>>,
        <<<<112, 104>>, <<112, 104>>>>,
        <<<<112>>, <<112>>>>,
        <<<<109>>, <<109>>>>,
        <<<<121>>, <<121>>>>,
        <<<<114>>, <<114>>>>,
        <<<<108>>, <<108>>>>,
        <<<<118>>, <<118>>>>,
        <<<<115>>, <<115>>>>,
        <<<<104>>, <<104>>>>,
        <<<<39>>, << >>>> })

toPhoneticVowelMap ==
    TableOf({
        <<<<226>>, <<97>>>>,
        <<<<244>>, <<111>>>>,
        <<<<257>>, <<97, 104>>>>,
        <<<<277>>, <<101>>>>,
        <<<<301>>, <<105>>>>,
        <<<<101, 105>>, <<97, 121>>>>,
        <<<<299>>, <<101, 101>>>>,
        <<<<339, 774>>, <<101, 117>>>>,
        <<<<339>>, <<101, 117>>>>,
        <<<<335>>, <<111>>>>,
        <<<<365>>, <<117>>>>,
        <<<<111>>, <<111, 104>>>>,
        <<<<363>>, <<111, 111>>>>,
        <<<<117, 259>>, <<117, 97>>>>,
        <<<<117, 335>>, <<117, 111>>>>,
        <<<<97, 101, 117>>, <<101, 117>>>>,
        <<<<101, 117>>, <<101, 117>>>>,
        <<<<339, 259>>, <<101, 117, 97>>>>,
        <<<<105, 277>>, <<105, 97>>>>,
        <<<<233>>, <<97, 121>>>>,
        <<<<234>>, <<101, 104>>>>,
        <<<<97, 105>>, <<97, 105>>>>,
        <<<<101, 121>>, <<101, 121>>>>,
        <<<<97, 117>>, <<97, 111>>>>,
        <<<<335, 117>>, <<111, 117>>>> })

\* `map[consonant] || consonant`: an empty result falls back to the key
toPhonetic(consonant) ==
    IF consonant \in DOMAIN toPhoneticMap /\ toPhoneticMap[consonant] # << >>
    THEN toPhoneticMap[consonant] ELSE consonant

\* `map[vowel] || vowel`
toPhoneticVowel(vowel) ==
    IF vowel \in DOMAIN toPhoneticVowelMap /\ toPhoneticVowelMap[vowel] # << >>
    THEN toPhoneticVowelMap[vowel] ELSE vowel

\* .replace(/\s+/g, ' ')
RECURSIVE CollapseWhitespace(_)
CollapseWhitespace(str) ==
    IF str = << >> THEN << >>
    ELSE IF Head(str) \in REGEX_S
    THEN IF Len(str) >= 2 /\ str[2] \in REGEX_S
         THEN CollapseWhitespace(Tail(str))
         ELSE <<SPACE>> \o CollapseWhitespace(Tail(str))
    ELSE <<Head(str)>> \o CollapseWhitespace(Tail(str))

\* .trim()
RECURSIVE Trim(_)
Trim(str) ==
    IF str = << >> THEN << >>
    ELSE IF Head(str) \in REGEX_S THEN Trim(Tail(str))
    ELSE IF str[Len(str)] \in REGEX_S THEN Trim(SubSeq(str, 1, Len(str) - 1))
    ELSE str

\* .toUpperCase(); the tables put only ASCII into phonetic
RECURSIVE ToUpperCase(_)
ToUpperCase(str) ==
    IF str = << >> THEN << >>
    ELSE <<IF Head(str) \in 97..122 THEN Head(str) - 32 ELSE Head(str)>>
            \o ToUpperCase(Tail(str))

cleanPhonetic(phonetic) ==
    LET kept == SelectSeq(phonetic, LAMBDA c : c # 660 /\ c # 39)
    IN ToUpperCase(Trim(CollapseWhitespace(kept)))

(***************************************************************************)
(* khmerDictionary.ts: romanizeCluster.  FirstPass(components, n) and      *)
(* SecondPass(components, n, baseSeries) are the locals of the first and   *)
(* of the second loop after n iterations.                                  *)
(***************************************************************************)
RECURSIVE FirstPass(_, _)
FirstPass(components, n) ==
    IF n = 0
    THEN [baseSeries |-> 1, hasExplicitVowel |-> FALSE,
          hasRegisterShift |-> FALSE, hasFinal |-> FALSE]
    ELSE LET st == FirstPass(components, n - 1)
             comp == components[n]
         IN IF comp.type = "consonant"
            THEN IF comp.char \in DOMAIN consonantRomanization
                 THEN [st EXCEPT !.baseSeries = consonantRomanization[comp.char].series]
                 ELSE st
            ELSE IF comp.type = "vowel"
            THEN [st EXCEPT !.hasExplicitVowel = TRUE]
            ELSE IF comp.type = "sign"
            THEN IF comp.char = MUUSIKATOAN
                 THEN [st EXCEPT !.hasRegisterShift = TRUE, !.baseSeries = 1]
                 ELSE IF comp.char = TRIISAP
                 THEN [st EXCEPT !.hasRegisterShift = TRUE, !.baseSeries = 2]
                 ELSE st
            ELSE IF comp.type = "subscript"
            THEN [st EXCEPT !.hasFinal = TRUE]
            ELSE st

\* a warning: its fixed text and the character interpolated into it
Warning(text, char) == [text |-> text, char |-> char]

UnknownConsonant(char) == Warning("Unknown consonant: ", <<char>>)

UnknownVowel(char) == Warning("Unknown vowel: ", <<char>>)

InherentVowelWarning == Warning("Using inherent vowel - pronunciation may vary", << >>)

\* one iteration of `for (let i = 0; i < components.length; i++)`
SecondPassStep(comp, baseSeries, st) ==
    IF comp.type = "consonant"
    THEN IF comp.char \in DOMAIN consonantRomanization
         THEN LET info == consonantRomanization[comp.char]
              IN [st EXCEPT
                    !.romanized = IF st.consonantCount = 0 THEN @ \o info.initial ELSE @,
                    !.phonetic = IF st.consonantCount = 0
                                 THEN @ \o toPhonetic(info.initial) ELSE @,
                    !.consonantCount = @ + 1]
         ELSE [st EXCEPT !.warnings = Append(@, UnknownConsonant(comp.char)),
                         !.confidence = "low"]
    ELSE IF comp.type = "subscript"
    THEN IF comp.char \in DOMAIN consonantRomanization
         THEN LET info == consonantRomanization[comp.char]
              IN [st EXCEPT !.romanized = @ \o info.initial,
                            !.phonetic = @ \o toPhonetic(info.initial)]
         ELSE st
    ELSE IF comp.type = "vowel"
    THEN IF comp.char \in DOMAIN vowelRomanization
         THEN LET vInfo == vowelRomanization[comp.char]
              IN [st EXCEPT !.vowelPart = IF baseSeries = 1 THEN vInfo.series1
                                          ELSE vInfo.series2]
         ELSE [st EXCEPT !.warnings = Append(@, UnknownVowel(comp.char)),
                         !.confidence = "medium"]
    ELSE IF comp.type = "sign"
    THEN IF comp.char \in DOMAIN signEffects /\ signEffects[comp.char].append # NULL
         THEN [st EXCEPT !.signParts = Append(@, Val(signEffects[comp.char].append))]
         ELSE st
    ELSE st

RECURSIVE SecondPass(_, _, _)
SecondPass(components, n, baseSeries) ==
    IF n = 0
    THEN [romanized |-> << >>, phonetic |-> << >>, confidence |-> "high",
          warnings |-> << >>, consonantCount |-> 0, vowelPart |-> << >>,
          signParts |-> << >>]
    ELSE SecondPassStep(components[n], baseSeries,
                        SecondPass(components, n - 1, baseSeries))

\* an inherent vowel that warns whether or not the cluster has a subscript
InherentWarnsAlways(hasFinal) == TRUE

\* `if (!hasFinal)`
InherentWarns(hasFinal) == ~ hasFinal

\* `if (!hasExplicitVowel && consonantCount > 0) { ... }`
InherentVowel(first, st) ==
    IF ~ first.hasExplicitVowel /\ st.consonantCount > 0
    THEN LET st1 == [st EXCEPT !.vowelPart = IF first.baseSeries = 1
                                             THEN inherent.series1
                                             ELSE inherent.series2]
         IN IF InherentWarns(first.hasFinal)
            THEN [st1 EXCEPT !.warnings = Append(@, InherentVowelWarning),
                             !.confidence = IF @ = "high" THEN "medium" ELSE @]
            ELSE st1
    ELSE st

romanizeCluster(components) ==
    LET first == FirstPass(components, Len(components))
        st == InherentVowel(first,
                  SecondPass(components, Len(components), first.baseSeries))
        romanized == st.romanized \o st.vowelPart \o Concat(st.signParts)
        phonetic == cleanPhonetic(st.phonetic \o toPhoneticVowel(st.vowelPart)
                                     \o Concat(st.signParts))
    IN [romanized |-> IF romanized = << >> THEN <<63>> ELSE romanized,
        phonetic |-> IF phonetic = << >> THEN <<63>> ELSE phonetic,
        confidence |-> st.confidence,
        warnings |-> st.warnings]

(***************************************************************************)
(* wordSegmentation.ts: parseUserSpacedText.                               *)
(***************************************************************************)
\* the first position at or after i that holds no /\s/ character
RECURSIVE SkipWhitespace(_, _)
SkipWhitespace(text, i) ==
    IF i <= Len(text) /\ text[i] \in REGEX_S THEN SkipWhitespace(text, i + 1) ELSE i

\* text.split(/\s+/): the pieces between the white-space runs, empty ones too
RECURSIVE SplitFrom(_, _, _, _)
SplitFrom(text, i, piece, parts) ==
    IF i > Len(text) THEN Append(parts, piece)
    ELSE IF text[i] \in REGEX_S
    THEN SplitFrom(text, SkipWhitespace(text, i), << >>, Append(parts, piece))
    ELSE SplitFrom(text, i + 1, Append(piece, text[i]), parts)

\* a split whose empty pieces are kept
AllParts(parts) == parts

\* .filter(p => p.length > 0)
NonEmptyParts(parts) == SelectSeq(parts, LAMBDA part : Len(part) > 0)

\* `for (const part of parts)`: the words pushed, pos advancing by length + 1
RECURSIVE UserWordsLoop(_, _, _, _)
UserWordsLoop(parts, k, pos, words) ==
    IF k > Len(parts) THEN words
    ELSE LET part == parts[k]
             entry == getDictionaryEntry(part)
         IN UserWordsLoop(parts, k + 1, pos + Len(part) + 1,
                Append(words,
                       [text |-> part, startIndex |-> pos,
                        endIndex |-> pos + Len(part),
                        confidence |-> IF entry # NULL THEN "high" ELSE "low",
                        dictionaryMatch |-> entry,
                        isUserModified |-> TRUE]))

parseUserSpacedText(text) ==
    LET parts == NonEmptyParts(SplitFrom(text, 1, << >>, << >>))
        words == UserWordsLoop(parts, 1, 0, << >>)
        highCount == HighCount(words)
    IN [words |-> words, originalText |-> text, method |-> "user",
        overallConfidence |->
            IF Len(words) = 0 THEN "high"
            ELSE IF 5 * highCount >= 4 * Len(words) THEN "high"
            ELSE IF 2 * highCount >= Len(words) THEN "medium"
            ELSE "low"]

\* whether parseUserSpacedText(text) reaches initDictionary(): some part is
\* in neither the core nor the loaded extended dictionary
ParseUserSpacedTextInitialises(text) ==
    LET parts == NonEmptyParts(SplitFrom(text, 1, << >>, << >>))
    IN \E k \in 1..Len(parts) : ~ EntryFoundBeforeMap(parts[k])

ParseUserSpacedTextOf(text) ==
    /\ op' = "parseUserSpacedText"
    /\ arg' = text
    /\ ret' = parseUserSpacedText(text)
    /\ IF ParseUserSpacedTextInitialises(text)
       THEN initDictionary ELSE UNCHANGED cacheVars
    /\ UNCHANGED <<loaderVars, storeVars>>

(***************************************************************************)
(* The state after module load: nothing fetched, no cache built.           *)
(***************************************************************************)
Fresh ==
    /\ extendedDictionary = NULL
    /\ loadPromise = NULL
    /\ isLoading = FALSE
    /\ extLoads = << >>
    /\ wordListSet = NULL
    /\ wordListPromise = NULL
    /\ wordListLoads = << >>
    /\ ensureWaiters = 0
    /\ dictionaryWords = NULL
    /\ dictionaryMap = NULL
    /\ userDictionary = NULL

(***************************************************************************)
(* SpecParse: parseKhmerText applied to every string of at most MaxLen     *)
(* characters over one character of each class.                            *)
(***************************************************************************)
\* ក  ឥ  ា  ំ  ្  ១  ។  ' '  U+200B  'A'
ParseAlphabet == {6016, 6053, 6070, 6086, COENG, 6113, 6100, SPACE, ZWSP, 65}

InitParse ==
    /\ Fresh
    /\ op = "input"
    /\ arg \in StringsUpTo(ParseAlphabet, MaxLen)
    /\ ret = NULL

ParseKhmerText ==
    /\ op = "input"
    /\ op' = "parseKhmerText"
    /\ ret' = parseKhmerText(arg)
    /\ UNCHANGED <<arg, loaderVars, cacheVars, storeVars>>

NextParse == ParseKhmerText

SpecParse == InitParse /\ [][NextParse]_vars

(***************************************************************************)
(* C1.  Losslessness: the texts of the clusters of parseKhmerText(s), in   *)
(* order, concatenate to s, and the chars of every cluster's components    *)
(* concatenate to that cluster's text.                                     *)
(***************************************************************************)
ClusterTexts(clusters) == [k \in 1..Len(clusters) |-> clusters[k].text]

ComponentChars(cluster) ==
    [k \in 1..Len(cluster.components) |-> cluster.components[k].char]

C1_Lossless ==
    op = "parseKhmerText" =>
        /\ Concat(ClusterTexts(ret)) = arg
        /\ \A k \in 1..Len(ret) : ComponentChars(ret[k]) = ret[k].text

\* a base with a subscript, and another cluster, have been parsed
C1_Witness ==
    /\ op = "parseKhmerText"
    /\ Len(ret) >= 2
    /\ \E k \in 1..Len(ret) :
          /\ Len(ret[k].components) >= 3
          /\ ret[k].components[3].type = "subscript"

(***************************************************************************)
(* dictionaryLoader.ts: loadExtendedDictionary and loadWordList.  A load   *)
(* is the async closure started by a call; it suspends at `await fetch`    *)
(* ("fetching") and at `await response.json()` ("parsing") and settles     *)
(* its promise with the data ("data"), with the empty result of the catch  *)
(* block ("empty") or by rejecting ("rejected").  A load's id is its index *)
(* in extLoads / wordListLoads.                                            *)
(***************************************************************************)
InFlight(loads) == {id \in DOMAIN loads : loads[id] \in {"fetching", "parsing"}}

\* `if (extendedDictionary)`
ExtCached == extendedDictionary # NULL

\* a pending test that never hits
ExtPendingNever == FALSE

\* `if (loadPromise)`
ExtPending == loadPromise # NULL

\* a catch block that rethrows
ExtOnErrorRethrows == "rejected"

\* `catch (error) { console.error(...); return []; }`
ExtOnError == "empty"

\* a cache test that takes an empty set for no set
WordListCachedNonEmpty == wordListSet # NULL /\ Val(wordListSet) # {}

\* `if (wordListSet)`
WordListCached == wordListSet # NULL

\* `if (wordListPromise)`
WordListPending == wordListPromise # NULL

\* `catch (error) { console.error(...); return new Set<string>(); }`
WordListOnError == "empty"

\* the body of loadExtendedDictionary: what it changes and the promise it returns
LoadExtendedDictionaryBody ==
    IF ExtCached
    THEN /\ ret' = [kind |-> "value", value |-> Val(extendedDictionary)]
         /\ UNCHANGED <<extendedDictionary, loadPromise, isLoading, extLoads>>
    ELSE IF ExtPending
    THEN /\ ret' = [kind |-> "promise", id |-> Val(loadPromise)]
         /\ UNCHANGED <<extendedDictionary, loadPromise, isLoading, extLoads>>
    ELSE /\ Len(extLoads) < MaxLoads
         /\ isLoading' = TRUE
         /\ extLoads' = Append(extLoads, "fetching")
         /\ loadPromise' = Some(Len(extLoads) + 1)
         /\ ret' = [kind |-> "promise", id |-> Len(extLoads) + 1]
         /\ UNCHANGED extendedDictionary

LoadExtendedDictionary ==
    /\ op' = "loadExtendedDictionary"
    /\ arg' = << >>
    /\ LoadExtendedDictionaryBody
    /\ UNCHANGED <<wordListSet, wordListPromise, wordListLoads, ensureWaiters,
                   cacheVars, storeVars>>

\* `finally { isLoading = false; loadPromise = null; }` and the settling of the load
ExtSettle(id, outcome) ==
    /\ extLoads' = [extLoads EXCEPT ![id] = outcome]
    /\ isLoading' = FALSE
    /\ loadPromise' = NULL
    /\ arg' = << >>
    /\ ret' = [kind |-> "settled", id |-> id, outcome |-> outcome]
    /\ UNCHANGED <<wordListSet, wordListPromise, wordListLoads, ensureWaiters,
                   cacheVars, storeVars>>

\* the fetch resolves with an OK response; the load goes on to response.json()
ExtFetchResponds ==
    \E id \in DOMAIN extLoads :
        /\ extLoads[id] = "fetching"
        /\ extLoads' = [extLoads EXCEPT ![id] = "parsing"]
        /\ op' = "extFetchResponds"
        /\ arg' = << >>
        /\ ret' = [kind |-> "none"]
        /\ UNCHANGED <<extendedDictionary, loadPromise, isLoading, wordListSet,
                       wordListPromise, wordListLoads, ensureWaiters, cacheVars,
                       storeVars>>

\* the fetch rejects (network error) or its response is not OK
ExtFetchFails ==
    \E id \in DOMAIN extLoads :
        /\ extLoads[id] = "fetching"
        /\ op' = "extFetchFails"
        /\ ExtSettle(id, ExtOnError)
        /\ UNCHANGED extendedDictionary

\* response.json() resolves: `extendedDictionary = data; return data;`
ExtJsonResolves ==
    \E id \in DOMAIN extLoads :
        /\ extLoads[id] = "parsing"
        /\ op' = "extJsonResolves"
        /\ extendedDictionary' = Some(ExtendedData)
        /\ ExtSettle(id, "data")

\* response.json() rejects: the body is not JSON
ExtJsonFails ==
    \E id \in DOMAIN extLoads :
        /\ extLoads[id] = "parsing"
        /\ op' = "extJsonFails"
        /\ ExtSettle(id, ExtOnError)
        /\ UNCHANGED extendedDictionary

\* the body of loadWordList
LoadWordListBody ==
    IF WordListCached
    THEN /\ ret' = [kind |-> "value", wordList |-> Val(wordListSet)]
         /\ UNCHANGED <<wordListSet, wordListPromise, wordListLoads>>
    ELSE IF WordListPending
    THEN /\ ret' = [kind |-> "promise", id |-> Val(wordListPromise)]
         /\ UNCHANGED <<wordListSet, wordListPromise, wordListLoads>>
    ELSE /\ Len(wordListLoads) < MaxLoads
         /\ wordListLoads' = Append(wordListLoads, "fetching")
         /\ wordListPromise' = Some(Len(wordListLoads) + 1)
         /\ ret' = [kind |-> "promise", id |-> Len(wordListLoads) + 1]
         /\ UNCHANGED wordListSet

LoadWordList ==
    /\ op' = "loadWordList"
    /\ arg' = << >>
    /\ LoadWordListBody
    /\ UNCHANGED <<extendedDictionary, loadPromise, isLoading, extLoads,
                   ensureWaiters, cacheVars, storeVars>>

(***************************************************************************)
(* wordSegmentation.ts: ensureWordListLoaded.  The call runs loadWordList  *)
(* and suspends at its await.  When the promise it awaits is fulfilled its *)
(* continuation (`dictionaryWords = null; dictionaryMap = null;            *)
(* initDictionary()`) runs as a microtask of the same turn of the event    *)
(* loop, before any later event: at once when the word list was cached,    *)
(* otherwise in the step that settles the load.                            *)
(***************************************************************************)
EnsureWordListLoaded ==
    /\ op' = "ensureWordListLoaded"
    /\ arg' = << >>
    /\ UNCHANGED <<extendedDictionary, loadPromise, isLoading, extLoads, storeVars>>
    /\ IF WordListCached
       THEN /\ UNCHANGED <<wordListSet, wordListPromise, wordListLoads, ensureWaiters>>
            /\ dictionaryWords' = Some(BuiltWords)
            /\ dictionaryMap' = Some(BuiltMap)
            /\ ret' = [kind |-> "resolved"]
       ELSE /\ ensureWaiters < MaxWaiters
            /\ ensureWaiters' = ensureWaiters + 1
            /\ UNCHANGED cacheVars
            /\ IF WordListPending
               THEN UNCHANGED <<wordListSet, wordListPromise, wordListLoads>>
               ELSE /\ Len(wordListLoads) < MaxLoads
                    /\ wordListLoads' = Append(wordListLoads, "fetching")
                    /\ wordListPromise' = Some(Len(wordListLoads) + 1)
                    /\ UNCHANGED wordListSet
            /\ ret' = [kind |-> "pending"]

\* `finally { wordListPromise = null; }`, the settling of the load, and the
\* continuations of the ensureWordListLoaded calls that awaited it
WordListSettle(id, outcome, newSet) ==
    /\ wordListLoads' = [wordListLoads EXCEPT ![id] = outcome]
    /\ wordListPromise' = NULL
    /\ wordListSet' = newSet
    /\ ensureWaiters' = 0
    /\ IF ensureWaiters > 0 /\ outcome # "rejected"
       THEN /\ dictionaryWords' = Some(BuildWords(newSet, extendedDictionary))
            /\ dictionaryMap' = Some(BuildMap(extendedDictionary))
       ELSE UNCHANGED cacheVars
    /\ arg' = << >>
    /\ ret' = [kind |-> "settled", id |-> id, outcome |-> outcome,
               resumed |-> IF outcome # "rejected" THEN ensureWaiters ELSE 0,
               rejected |-> IF outcome = "rejected" THEN ensureWaiters ELSE 0]
    /\ UNCHANGED <<extendedDictionary, loadPromise, isLoading, extLoads, storeVars>>

WordListFetchResponds ==
    \E id \in DOMAIN wordListLoads :
        /\ wordListLoads[id] = "fetching"
        /\ wordListLoads' = [wordListLoads EXCEPT ![id] = "parsing"]
        /\ op' = "wordListFetchResponds"
        /\ arg' = << >>
        /\ ret' = [kind |-> "none"]
        /\ UNCHANGED <<extendedDictionary, loadPromise, isLoading, extLoads,
                       wordListSet, wordListPromise, ensureWaiters, cacheVars,
                       storeVars>>

WordListFetchFails ==
    \E id \in DOMAIN wordListLoads :
        /\ wordListLoads[id] = "fetching"
        /\ op' = "wordListFetchFails"
        /\ WordListSettle(id, WordListOnError, wordListSet)

\* `wordListSet = new Set(words); return wordListSet;`
WordListJsonResolves ==
    \E id \in DOMAIN wordListLoads, words \in WordListPayloads :
        /\ wordListLoads[id] = "parsing"
        /\ op' = "wordListJsonResolves"
        /\ WordListSettle(id, "data", Some(words))

WordListJsonFails ==
    \E id \in DOMAIN wordListLoads :
        /\ wordListLoads[id] = "parsing"
        /\ op' = "wordListJsonFails"
        /\ WordListSettle(id, WordListOnError, wordListSet)

(***************************************************************************)
(* The synchronous queries, called between the loader's events.            *)
(***************************************************************************)
TAB == 9

\* a core word, an extended-only word, an unknown word, a text of three
\* clusters with white space in it, and an extended-only word of one cluster
ProbeTexts ==
    { <<KA>>, <<KHA, KA, AA>>, <<KHA>>, <<KA, TAB, KHA, SPACE, KA, AA>>, <<KO>> }

IsKnownWord ==
    \E word \in ProbeTexts :
        /\ op' = "isKnownWord"
        /\ arg' = word
        /\ ret' = [known |-> isKnownWord(word)]
        /\ initDictionary
        /\ UNCHANGED <<loaderVars, storeVars>>

GetDictionaryEntry ==
    \E word \in ProbeTexts :
        /\ op' = "getDictionaryEntry"
        /\ arg' = word
        /\ ret' = [entry |-> getDictionaryEntry(word)]
        /\ IF EntryFoundBeforeMap(word) THEN UNCHANGED cacheVars ELSE initDictionary
        /\ UNCHANGED <<loaderVars, storeVars>>

SegmentTextOf(text) ==
    /\ op' = "segmentText"
    /\ arg' = text
    /\ ret' = segmentText(text)
    /\ IF SegmentTextInitialises(text) THEN initDictionary ELSE UNCHANGED cacheVars
    /\ UNCHANGED <<loaderVars, storeVars>>

SegmentText == \E text \in ProbeTexts : SegmentTextOf(text)

(***************************************************************************)
(* RomanizationPanel.tsx: romanizedData, the entries the panel displays    *)
(* for a text and its clusters (AnalyzePage passes parseKhmerText(text)).  *)
(* An entry's english is NULL when the object has no such property.        *)
(***************************************************************************)
\* `dictEntry.romanized || dictEntry.phonetic || ''` and `dictEntry.phonetic || ''`
EntryField(entry, field) == IF field \in DOMAIN entry THEN entry[field] ELSE << >>

\* the entry pushed for one cluster; clusterIdx is the source's 0-based index
RomanizedItem(cluster, clusterIdx) ==
    IF cluster.type = "space"
    THEN [khmer |-> <<SPACE>>, romanized |-> <<SPACE>>, phonetic |-> <<SPACE>>,
          english |-> NULL, confidence |-> "high", warnings |-> << >>,
          isSpace |-> TRUE, clusterIdx |-> clusterIdx]
    ELSE LET dictEntry == getDictionaryEntry(cluster.text)
         IN IF dictEntry # NULL
            THEN [khmer |-> cluster.text,
                  romanized |->
                      IF EntryField(Val(dictEntry), "romanized") # << >>
                      THEN EntryField(Val(dictEntry), "romanized")
                      ELSE EntryField(Val(dictEntry), "phonetic"),
                  phonetic |-> EntryField(Val(dictEntry), "phonetic"),
                  english |-> Some(Val(dictEntry).english),
                  confidence |-> "high", warnings |-> << >>,
                  isSpace |-> FALSE, clusterIdx |-> clusterIdx]
            ELSE LET rom == romanizeCluster(cluster.components)
                 IN [khmer |-> cluster.text, romanized |-> rom.romanized,
                     phonetic |-> rom.phonetic, english |-> NULL,
                     confidence |-> rom.confidence, warnings |-> rom.warnings,
                     isSpace |-> FALSE, clusterIdx |-> clusterIdx]

\* clusters.forEach((cluster, clusterIdx) => { ... result.push(...) })
RECURSIVE RomanizedLoop(_, _, _)
RomanizedLoop(clusters, k, result) ==
    IF k > Len(clusters) THEN result
    ELSE RomanizedLoop(clusters, k + 1,
                       Append(result, RomanizedItem(clusters[k], k - 1)))

romanizedData(text, clusters) ==
    IF Trim(text) = << >> THEN << >>
    ELSE RomanizedLoop(clusters, 1, << >>)

\* whether romanizedData reaches initDictionary(): some cluster is looked up
\* and found in neither the core nor the loaded extended dictionary
RomanizedDataInitialises(text, clusters) ==
    /\ Trim(text) # << >>
    /\ \E k \in 1..Len(clusters) :
          clusters[k].type # "space" /\ ~ EntryFoundBeforeMap(clusters[k].text)

RomanizedData ==
    \E text \in ProbeTexts :
        LET clusters == parseKhmerText(text)
        IN /\ op' = "romanizedData"
           /\ arg' = text
           /\ ret' = [items |-> romanizedData(text, clusters)]
           /\ IF RomanizedDataInitialises(text, clusters)
              THEN initDictionary ELSE UNCHANGED cacheVars
           /\ UNCHANGED <<loaderVars, storeVars>>

Init ==
    /\ Fresh
    /\ op = "load"
    /\ arg = << >>
    /\ ret = [kind |-> "none"]

Next ==
    \/ LoadExtendedDictionary
    \/ ExtFetchResponds
    \/ ExtFetchFails
    \/ ExtJsonResolves
    \/ ExtJsonFails
    \/ LoadWordList
    \/ EnsureWordListLoaded
    \/ WordListFetchResponds
    \/ WordListFetchFails
    \/ WordListJsonResolves
    \/ WordListJsonFails
    \/ IsKnownWord
    \/ GetDictionaryEntry
    \/ SegmentText
    \/ RomanizedData

Spec == Init /\ [][Next]_vars

(***************************************************************************)
(* SpecSeg: segmentText applied to every string of at most MaxSegLen       *)
(* characters over two consonants, a vowel and a space, and to every       *)
(* string of maxClusters + 1 consonants, to the nine-cluster dictionary    *)
(* word, to texts of four and five tokens, and to the short strings of     *)
(* spaces, ZWSPs and tabs, in each state of the tiers in which no query    *)
(* has run yet.                                                            *)
(***************************************************************************)
SegAlphabet == {KA, KHA, AA, SPACE}

BlankTexts == StringsUpTo({SPACE, ZWSP, TAB}, 2)

\* tokens.join(' ')
RECURSIVE JoinSpaced(_)
JoinSpaced(tokens) ==
    IF Len(tokens) <= 1 THEN Concat(tokens)
    ELSE Head(tokens) \o <<SPACE>> \o JoinSpaced(Tail(tokens))

\* four and five one-cluster tokens, a known and an unknown one, with spaces
SpacedTexts ==
    {JoinSpaced(tokens) : tokens \in [1..4 -> {<<KA>>, <<KHA>>}]
                                    \cup [1..5 -> {<<KA>>, <<KHA>>}]}

SegTexts ==
    StringsUpTo(SegAlphabet, MaxSegLen) \cup [1..(maxClusters + 1) -> {KA, KHA}]
        \cup BlankTexts \cup SpacedTexts \cup {LongWord}

InitSeg ==
    /\ extendedDictionary \in {NULL, Some(ExtendedData)}
    /\ extLoads = IF extendedDictionary = NULL THEN << >> ELSE <<"data">>
    /\ loadPromise = NULL
    /\ isLoading = FALSE
    /\ wordListSet \in {NULL} \cup {Some(words) : words \in WordListPayloads}
    /\ wordListLoads = IF wordListSet = NULL THEN << >> ELSE <<"data">>
    /\ wordListPromise = NULL
    /\ ensureWaiters = 0
    /\ dictionaryWords = NULL
    /\ dictionaryMap = NULL
    /\ userDictionary = NULL
    /\ op = "input"
    /\ arg \in SegTexts
    /\ ret = [kind |-> "none"]

SegmentTextInput ==
    /\ op = "input"
    /\ SegmentTextOf(arg)

ParseUserSpacedTextInput ==
    /\ op = "input"
    /\ ParseUserSpacedTextOf(arg)

NextSeg ==
    \/ SegmentTextInput
    \/ ParseUserSpacedTextInput

SpecSeg == InitSeg /\ [][NextSeg]_vars


(***************************************************************************)
(* What the claims about segmentText(arg) speak of.                        *)
(***************************************************************************)
CleanText == StripWhitespace(arg)

CleanClusters == parseKhmerText(CleanText)

\* the character offsets at which a cluster of the cleaned text starts or ends
ClusterBoundaries ==
    {Len(Concat(ClusterTexts(SubSeq(CleanClusters, 1, k)))) :
        k \in 0..Len(CleanClusters)}

ForwardResult == forwardMaxMatch(CleanClusters)

BackwardResult == backwardMaxMatch(CleanClusters)

Segmented == op = "segmentText" /\ CleanText # << >>

\* the word lists a call computes: the two scans and the one returned
WordLists == {ForwardResult, BackwardResult, ret.words}

(***************************************************************************)
(* C2.  Cluster atomicity: every startIndex and endIndex of every word of  *)
(* segmentText(text), and of the forward and the backward scan it chooses  *)
(* from, is a cluster boundary of parseKhmerText(cleanText).               *)
(***************************************************************************)
C2_ClusterAtomicity ==
    Segmented =>
        LET boundaries == ClusterBoundaries
        IN \A ws \in WordLists : \A k \in 1..Len(ws) :
               /\ ws[k].startIndex \in boundaries
               /\ ws[k].endIndex \in boundaries

\* a text with a two-character cluster, cut into a known and an unknown word
C2_Witness ==
    /\ Segmented
    /\ \E k \in 1..Len(CleanClusters) : Len(CleanClusters[k].text) >= 2
    /\ Len(ret.words) >= 2
    /\ \E k \in 1..Len(ret.words) : ret.words[k].confidence = "low"
    /\ \E k \in 1..Len(ret.words) : ret.words[k].confidence = "high"

(***************************************************************************)
(* C3.  Offsets partition the cleaned text: in the returned words and in   *)
(* both scans the first word starts at 0, each word starts where the one   *)
(* before it ends, the last ends at length(cleanText), no word is empty,   *)
(* and a word's text is cleanText[startIndex .. endIndex).                 *)
(***************************************************************************)
IsPartition(ws, clean) ==
    /\ Len(ws) >= 1
    /\ ws[1].startIndex = 0
    /\ ws[Len(ws)].endIndex = Len(clean)
    /\ \A k \in 1..(Len(ws) - 1) : ws[k].endIndex = ws[k + 1].startIndex
    /\ \A k \in 1..Len(ws) :
          /\ ws[k].startIndex < ws[k].endIndex
          /\ ws[k].text = SubSeq(clean, ws[k].startIndex + 1, ws[k].endIndex)

C3_OffsetsPartition ==
    Segmented => \A ws \in WordLists : IsPartition(ws, CleanText)

\* white space was stripped from the input and the result has three words
C3_Witness ==
    /\ Segmented
    /\ Len(CleanText) < Len(arg)
    /\ Len(ret.words) >= 3
    /\ ForwardResult # BackwardResult

(***************************************************************************)
(* C4.  Reconciliation: the returned words are the forward result F when   *)
(* |F| < |B|, the backward result B when |B| < |F|; at |F| = |B| they are  *)
(* F when F has at least as many high-confidence words as B, and B only    *)
(* when B has strictly more.                                               *)
(***************************************************************************)
C4_Reconciliation ==
    Segmented =>
        LET F == ForwardResult
            B == BackwardResult
        IN /\ Len(F) < Len(B) => ret.words = F
           /\ Len(B) < Len(F) => ret.words = B
           /\ (Len(F) = Len(B) /\ HighCount(F) >= HighCount(B)) => ret.words = F
           /\ (Len(F) = Len(B) /\ HighCount(B) > HighCount(F)) => ret.words = B

\* a tie in length that the backward result wins on high-confidence words
C4_Witness ==
    /\ Segmented
    /\ Len(ForwardResult) = Len(BackwardResult)
    /\ HighCount(BackwardResult) > HighCount(ForwardResult)
    /\ ret.words = BackwardResult
    /\ ret.words # ForwardResult

(***************************************************************************)
(* C5.  Every high-confidence word returned by segmentText carries a       *)
(* dictionary entry, and every low-confidence word carries none, in every  *)
(* state of the tiers and of the membership cache.                         *)
(***************************************************************************)
C5_HighHasEntry ==
    op = "segmentText" =>
        \A k \in 1..Len(ret.words) :
            /\ ret.words[k].confidence = "high" => ret.words[k].dictionaryMatch # NULL
            /\ ret.words[k].confidence = "low" => ret.words[k].dictionaryMatch = NULL

(***************************************************************************)
(* C6.  Freshness: once the extended dictionary is loaded, isKnownWord(w)  *)
(* returns true for every word w of it and segmentText(w) returns w as one *)
(* high-confidence word, whatever was called before the load completed.    *)
(***************************************************************************)
C6_Freshness ==
    (extendedDictionary # NULL /\ arg \in Keys(Val(extendedDictionary))) =>
        /\ op = "isKnownWord" => ret.known
        /\ op = "segmentText" =>
              /\ Len(ret.words) = 1
              /\ ret.words[1].text = arg
              /\ ret.words[1].confidence = "high"

(***************************************************************************)
(* C7.  De-duplicated load: at most one load of each resource is in        *)
(* flight, and a call made while a load is pending returns that load's     *)
(* promise and starts no load.                                             *)
(***************************************************************************)
C7_Dedup ==
    /\ [](Cardinality(InFlight(extLoads)) <= 1
          /\ Cardinality(InFlight(wordListLoads)) <= 1)
    /\ [][(loadPromise # NULL /\ op' = "loadExtendedDictionary") =>
             /\ ret' = [kind |-> "promise", id |-> Val(loadPromise)]
             /\ extLoads' = extLoads]_vars
    /\ [][(wordListPromise # NULL /\ op' = "loadWordList") =>
             /\ ret' = [kind |-> "promise", id |-> Val(wordListPromise)]
             /\ wordListLoads' = wordListLoads]_vars
    /\ [][(wordListPromise # NULL /\ op' = "ensureWordListLoaded") =>
             wordListLoads' = wordListLoads]_vars

\* loadExtendedDictionary was called while the pending load was already at
\* response.json(), and the word list was asked for twice while pending
C7_Witness ==
    /\ op = "loadExtendedDictionary"
    /\ loadPromise # NULL
    /\ extLoads[Val(loadPromise)] = "parsing"
    /\ ret = [kind |-> "promise", id |-> Val(loadPromise)]
    /\ wordListPromise # NULL
    /\ ensureWaiters >= 1

(***************************************************************************)
(* C8.  Load-once caching: once a resource is loaded its data never        *)
(* changes, no load of it starts again, and a later call of its loader     *)
(* returns the cached data.                                                *)
(***************************************************************************)
C8_LoadOnce ==
    /\ [][extendedDictionary # NULL =>
             /\ extendedDictionary' = extendedDictionary
             /\ extLoads' = extLoads
             /\ op' = "loadExtendedDictionary" =>
                    ret' = [kind |-> "value", value |-> Val(extendedDictionary)]]_vars
    /\ [][wordListSet # NULL =>
             /\ wordListSet' = wordListSet
             /\ wordListLoads' = wordListLoads
             /\ op' = "loadWordList" =>
                    ret' = [kind |-> "value", wordList |-> Val(wordListSet)]]_vars

\* both loaders were called after their data arrived; the word list is empty
C8_Witness ==
    /\ op = "loadWordList"
    /\ ret = [kind |-> "value", wordList |-> {}]
    /\ extendedDictionary # NULL
    /\ Len(extLoads) < MaxLoads

(***************************************************************************)
(* C9.  Fail-open load: a load whose fetch fails, answers not-OK or has an *)
(* unparsable body settles its promise with the empty result and never     *)
(* rejects; the tier stays absent and nothing stays pending; the           *)
(* ensureWordListLoaded calls that awaited it resume; and while the word   *)
(* list is absent a query still knows every core word.                     *)
(***************************************************************************)
ExtFailures == {"extFetchFails", "extJsonFails"}

WordListFailures == {"wordListFetchFails", "wordListJsonFails"}

C9_FailOpen ==
    /\ \A id \in DOMAIN extLoads : extLoads[id] # "rejected"
    /\ \A id \in DOMAIN wordListLoads : wordListLoads[id] # "rejected"
    /\ op \in ExtFailures =>
          /\ ret.outcome = "empty"
          /\ extendedDictionary = NULL
          /\ loadPromise = NULL
          /\ isLoading = FALSE
    /\ op \in WordListFailures =>
          /\ ret.outcome = "empty"
          /\ ret.rejected = 0
          /\ wordListSet = NULL
          /\ wordListPromise = NULL
          /\ ensureWaiters = 0
          /\ ret.resumed > 0 => dictionaryWords # NULL
    /\ (op = "isKnownWord" /\ wordListSet = NULL /\ arg \in Keys(coreDictionary)) =>
          ret.known

\* every load of the extended dictionary failed, an ensureWordListLoaded
\* call resumed after a failed word-list load, and a core word was queried
C9_Witness ==
    /\ op = "isKnownWord"
    /\ arg \in Keys(coreDictionary)
    /\ Len(extLoads) >= 1
    /\ \A id \in DOMAIN extLoads : extLoads[id] = "empty"
    /\ Len(wordListLoads) >= 1
    /\ wordListLoads[1] = "empty"
    /\ wordListSet = NULL
    /\ dictionaryWords # NULL

(***************************************************************************)
(* C10.  With no known substring the result is one unknown word: when no   *)
(* span of 1..8 clusters of the cleaned input is a known word, a non-empty *)
(* cleaned input yields exactly one word, of confidence low, without a     *)
(* dictionary entry, whose text is the whole cleaned input, and the        *)
(* overall confidence is low.                                              *)
(***************************************************************************)
NoKnownSpan ==
    \A i \in 0..(Len(CleanClusters) - 1) :
        \A n \in 1..Min(maxClusters, Len(CleanClusters) - i) :
            ~ isKnownWord(clustersToText(CleanClusters, i, i + n))

C10_SingleUnknownWord ==
    (Segmented /\ NoKnownSpan) =>
        /\ Len(ret.words) = 1
        /\ ret.words[1].confidence = "low"
        /\ ret.words[1].dictionaryMatch = NULL
        /\ ret.words[1].text = CleanText
        /\ ret.words[1].startIndex = 0
        /\ ret.words[1].endIndex = Len(CleanText)
        /\ ret.overallConfidence = "low"

\* nine unknown clusters, one more than a candidate span can hold
C10_Witness ==
    /\ Segmented
    /\ NoKnownSpan
    /\ Len(CleanClusters) > maxClusters
    /\ Len(ret.words) = 1

(***************************************************************************)
(* userDictionary.ts and storage.ts: the user's own words, kept as one     *)
(* localStorage item.  getStorageItem answers the default when the item    *)
(* is missing; setStorageItem swallows a failed write (quota, private      *)
(* mode) and the item stays as it was.  An index is 1-based, 0 for the     *)
(* source's -1.                                                            *)
(***************************************************************************)
\* instants `new Date().toISOString()` can denote
MaxTime == 2

Times == 1..MaxTime

\* the khmer keys the user adds and removes: a core word and an unknown word
UserWords == { <<KA>>, <<KHA>> }

\* getStorageItem(STORAGE_KEYS.USER_DICTIONARY, [])
getUserDictionary == IF userDictionary = NULL THEN << >> ELSE Val(userDictionary)

\* setStorageItem(STORAGE_KEYS.USER_DICTIONARY, entries), written or not
saveUserDictionary(entries, written) ==
    userDictionary' = IF written THEN Some(entries) ELSE userDictionary

\* `new Date()`: no earlier than the instants the stored entries were updated at
Now ==
    { t \in Times : \A k \in 1..Len(getUserDictionary) :
                        getUserDictionary[k].updatedAt <= t }

\* entries.findIndex(e => e.khmer === khmer)
RECURSIVE FindIndexFrom(_, _, _)
FindIndexFrom(entries, khmer, k) ==
    IF k > Len(entries) THEN 0
    ELSE IF entries[k].khmer = khmer THEN k
    ELSE FindIndexFrom(entries, khmer, k + 1)

FindIndex(entries, khmer) == FindIndexFrom(entries, khmer, 1)

\* entries.splice(idx, 1)
Splice(entries, idx) ==
    SubSeq(entries, 1, idx - 1) \o SubSeq(entries, idx + 1, Len(entries))

lookupUserWord(khmer) == Find(getUserDictionary, khmer)

\* the entry addUserWord builds and the array it saves
NewUserEntry(entries, khmer, english, now) ==
    LET existingIdx == FindIndex(entries, khmer)
    IN [khmer |-> khmer, english |-> english, frequency |-> 50,
        createdAt |-> IF existingIdx >= 1 THEN entries[existingIdx].createdAt
                      ELSE now,
        updatedAt |-> now]

EntriesAfterAdd(entries, newEntry) ==
    LET existingIdx == FindIndex(entries, newEntry.khmer)
    IN IF existingIdx >= 1 THEN [entries EXCEPT ![existingIdx] = newEntry]
       ELSE Append(entries, newEntry)

AddUserWord ==
    \E khmer \in UserWords, now \in Now, written \in BOOLEAN :
        LET entries == getUserDictionary
            newEntry == NewUserEntry(entries, khmer, "user", now)
        IN /\ op' = "addUserWord"
           /\ arg' = khmer
           /\ saveUserDictionary(EntriesAfterAdd(entries, newEntry), written)
           /\ ret' = newEntry
           /\ UNCHANGED <<loaderVars, cacheVars>>

RemoveUserWord ==
    \E khmer \in UserWords, written \in BOOLEAN :
        LET entries == getUserDictionary
            idx == FindIndex(entries, khmer)
        IN /\ op' = "removeUserWord"
           /\ arg' = khmer
           /\ IF idx >= 1
              THEN /\ saveUserDictionary(Splice(entries, idx), written)
                   /\ ret' = [removed |-> TRUE]
              ELSE /\ UNCHANGED userDictionary
                   /\ ret' = [removed |-> FALSE]
           /\ UNCHANGED <<loaderVars, cacheVars>>

(***************************************************************************)
(* importFromJSON.  The model takes what JSON.parse(jsonStr) gives: a       *)
(* SyntaxError, a value that is not an array, or an array of items.  An    *)
(* item is null or an object; khmerType is typeof item.khmer and khmer is  *)
(* the string when it is one.  The items carry no frequency, so            *)
(* `item.frequency || 50` is 50; `item.english || ''` is the english       *)
(* field; one instant stands for the `now` of every item of a call.        *)
(***************************************************************************)
JsonNull ==
    [json |-> "null", khmerType |-> "undefined", khmer |-> << >>,
     english |-> "", createdAt |-> NULL]

ImportItem(khmerType, khmer, createdAt) ==
    [json |-> "object", khmerType |-> khmerType, khmer |-> khmer,
     english |-> "import", createdAt |-> createdAt]

\* null, an object whose khmer is a number, and two words, one with a createdAt
ImportItems ==
    { JsonNull,
      ImportItem("number", << >>, NULL),
      ImportItem("string", <<KA>>, NULL),
      ImportItem("string", <<KHA>>, Some(1)) }

\* longest imported array
MaxItems == 2

ImportInputs ==
    { [kind |-> "invalid", items |-> << >>],
      [kind |-> "value", items |-> << >>] }
    \cup { [kind |-> "array", items |-> items] :
               items \in StringsUpTo(ImportItems, MaxItems) }

\* `item.khmer`: a non-zero number and a non-empty string are truthy
Truthy(item) ==
    \/ item.khmerType = "number"
    \/ item.khmerType = "string" /\ item.khmer # << >>

\* the `for (const item of imported)` loop; reading item.khmer of null throws
RECURSIVE ImportLoop(_, _, _, _, _)
ImportLoop(imported, k, entries, addedCount, now) ==
    IF k > Len(imported)
    THEN [thrown |-> FALSE, entries |-> entries, addedCount |-> addedCount]
    ELSE LET item == imported[k]
         IN IF item.json = "null"
            THEN [thrown |-> TRUE, entries |-> entries, addedCount |-> addedCount]
            ELSE IF Truthy(item) /\ item.khmerType = "string"
            THEN LET existingIdx == FindIndex(entries, item.khmer)
                     entry == [khmer |-> item.khmer, english |-> item.english,
                               frequency |-> 50,
                               createdAt |-> IF item.createdAt # NULL
                                             THEN Val(item.createdAt) ELSE now,
                               updatedAt |-> now]
                 IN IF existingIdx >= 1
                    THEN ImportLoop(imported, k + 1,
                                    [entries EXCEPT ![existingIdx] = entry],
                                    addedCount, now)
                    ELSE ImportLoop(imported, k + 1, Append(entries, entry),
                                    addedCount + 1, now)
            ELSE ImportLoop(imported, k + 1, entries, addedCount, now)

\* ret holds the call's input next to its outcome
ImportFromJSONPartial ==
    \E jsonStr \in ImportInputs, now \in Now, written \in BOOLEAN :
        LET r == ImportLoop(jsonStr.items, 1, getUserDictionary, 0, now)
        IN /\ op' = "importFromJSON"
           /\ arg' = << >>
           /\ IF jsonStr.kind # "array"
              THEN /\ UNCHANGED userDictionary
                   /\ ret' = [thrown |-> TRUE, addedCount |-> 0, jsonStr |-> jsonStr]
              ELSE /\ saveUserDictionary(r.entries, written)
                   /\ ret' = [thrown |-> r.thrown,
                              addedCount |-> IF r.thrown THEN 0 ELSE r.addedCount,
                              jsonStr |-> jsonStr]
           /\ UNCHANGED <<loaderVars, cacheVars>>

ImportFromJSON ==
    \E jsonStr \in ImportInputs, now \in Now, written \in BOOLEAN :
        LET r == ImportLoop(jsonStr.items, 1, getUserDictionary, 0, now)
        IN /\ op' = "importFromJSON"
           /\ arg' = << >>
           /\ IF jsonStr.kind # "array" \/ r.thrown
              THEN /\ UNCHANGED userDictionary
                   /\ ret' = [thrown |-> TRUE, addedCount |-> 0, jsonStr |-> jsonStr]
              ELSE /\ saveUserDictionary(r.entries, written)
                   /\ ret' = [thrown |-> FALSE, addedCount |-> r.addedCount,
                              jsonStr |-> jsonStr]
           /\ UNCHANGED <<loaderVars, cacheVars>>

\* removeStorageItem swallows a failed removal
ClearUserDictionary ==
    \E removed \in BOOLEAN :
        /\ op' = "clearUserDictionary"
        /\ arg' = << >>
        /\ userDictionary' = IF removed THEN NULL ELSE userDictionary
        /\ ret' = [kind |-> "none"]
        /\ UNCHANGED <<loaderVars, cacheVars>>

(***************************************************************************)
(* SpecUser: the user edits their dictionary and looks words up, with the  *)
(* extended dictionary absent or loaded.                                   *)
(***************************************************************************)
InitUser ==
    /\ extendedDictionary \in {NULL, Some(ExtendedData)}
    /\ extLoads = IF extendedDictionary = NULL THEN << >> ELSE <<"data">>
    /\ loadPromise = NULL
    /\ isLoading = FALSE
    /\ wordListSet = NULL
    /\ wordListLoads = << >>
    /\ wordListPromise = NULL
    /\ ensureWaiters = 0
    /\ dictionaryWords = NULL
    /\ dictionaryMap = NULL
    /\ userDictionary = NULL
    /\ op = "load"
    /\ arg = << >>
    /\ ret = [kind |-> "none"]

NextUser ==
    \/ AddUserWord
    \/ RemoveUserWord
    \/ GetDictionaryEntry
    \/ IsKnownWord

SpecUser == InitUser /\ [][NextUser]_vars

(***************************************************************************)
(* SpecStore: every operation that writes the user dictionary, from an     *)
(* empty store.                                                            *)
(***************************************************************************)
InitStore ==
    /\ InitUser
    /\ extendedDictionary = NULL

NextStore ==
    \/ AddUserWord
    \/ RemoveUserWord
    \/ ImportFromJSON
    \/ ClearUserDictionary

SpecStore == InitStore /\ [][NextStore]_vars

(***************************************************************************)
(* C11.  Lookup priority: getDictionaryEntry(word) returns the user        *)
(* dictionary's entry for word when there is one, else the core entry,     *)
(* else the extended entry, and null only when no tier holds the word.     *)
(***************************************************************************)
C11_LookupPriority ==
    op = "getDictionaryEntry" =>
        IF lookupUserWord(arg) # NULL THEN ret.entry = lookupUserWord(arg)
        ELSE IF lookupKhmer(arg) # NULL THEN ret.entry = lookupKhmer(arg)
        ELSE IF lookupExtended(arg) # NULL THEN ret.entry = lookupExtended(arg)
        ELSE ret.entry = NULL

(***************************************************************************)
(* SpecRom: romanizeCluster applied to every list of at most MaxComps      *)
(* components over known consonants of both series, a consonant and a      *)
(* vowel the tables lack, a subscript, a vowel and three signs.            *)
(***************************************************************************)
\* longest component list handed to romanizeCluster
MaxComps == 3

RomComponents ==
    { Component(KA, "consonant"), Component(KO, "consonant"),
      Component(6045, "consonant"), Component(COENG, "coeng"),
      Component(KA, "subscript"), Component(AA, "vowel"),
      Component(6068, "vowel"), Component(6086, "sign"),
      Component(MUUSIKATOAN, "sign"), Component(TRIISAP, "sign") }

InitRom ==
    /\ Fresh
    /\ op = "input"
    /\ arg \in StringsUpTo(RomComponents, MaxComps)
    /\ ret = NULL

RomanizeCluster ==
    /\ op = "input"
    /\ op' = "romanizeCluster"
    /\ ret' = romanizeCluster(arg)
    /\ UNCHANGED <<arg, loaderVars, cacheVars, storeVars>>

NextRom == RomanizeCluster

SpecRom == InitRom /\ [][NextRom]_vars

(***************************************************************************)
(* C12.  Monotonic confidence: along the pass of romanizeCluster over a    *)
(* component list the confidence never moves back from low to medium or    *)
(* high, nor from medium to high, and the confidence returned is the       *)
(* worst one the pass reached.                                             *)
(***************************************************************************)
Rank(confidence) ==
    IF confidence = "high" THEN 0 ELSE IF confidence = "medium" THEN 1 ELSE 2

\* the confidence after each of the first n iterations of the second loop
ConfidenceAfter(components, n) ==
    SecondPass(components, n,
               FirstPass(components, Len(components)).baseSeries).confidence

C12_MonotonicConfidence ==
    op = "romanizeCluster" =>
        /\ \A n \in 1..Len(arg) :
              Rank(ConfidenceAfter(arg, n)) >= Rank(ConfidenceAfter(arg, n - 1))
        /\ \A n \in 0..Len(arg) :
              Rank(ret.confidence) >= Rank(ConfidenceAfter(arg, n))

(***************************************************************************)
(* C13.  Inherent vowel: for a cluster of a known base consonant without   *)
(* a dependent vowel the romanization is the consonants followed by the    *)
(* inherent vowel of the resolved series (â for series 1, ô for series 2). *)
(* Without a subscript the confidence is medium and the inherent-vowel     *)
(* warning is present; with a subscript there is no warning and the        *)
(* confidence stays high.                                                  *)
(***************************************************************************)
\* a known base consonant followed by coengs, subscripts and signs only
KnownBaseWithoutVowel(components) ==
    /\ Len(components) >= 1
    /\ components[1].type = "consonant"
    /\ components[1].char \in DOMAIN consonantRomanization
    /\ \A k \in 2..Len(components) :
          components[k].type \in {"coeng", "subscript", "sign"}

HasSubscript(components) ==
    \E k \in 1..Len(components) : components[k].type = "subscript"

\* the base's series unless a register shifter follows: the last one decides
ResolvedSeries(components) ==
    LET shifts == {k \in 1..Len(components) :
                      /\ components[k].type = "sign"
                      /\ components[k].char \in {MUUSIKATOAN, TRIISAP}}
        last == CHOOSE k \in shifts : \A j \in shifts : j <= k
    IN IF shifts = {} THEN consonantRomanization[components[1].char].series
       ELSE IF components[last].char = MUUSIKATOAN THEN 1 ELSE 2

\* the initials of the base and of the subscripts, in order
ConsonantPart(components) ==
    Concat([k \in 1..Len(components) |->
               IF /\ components[k].type \in {"consonant", "subscript"}
                  /\ components[k].char \in DOMAIN consonantRomanization
               THEN consonantRomanization[components[k].char].initial
               ELSE << >>])

C13_InherentVowel ==
    (op = "romanizeCluster" /\ KnownBaseWithoutVowel(arg)) =>
        LET consonants == ConsonantPart(arg)
            vowel == IF ResolvedSeries(arg) = 1 THEN <<226>> ELSE <<244>>
        IN /\ Len(ret.romanized) > Len(consonants)
           /\ SubSeq(ret.romanized, 1, Len(consonants) + 1) = consonants \o vowel
           /\ ~ HasSubscript(arg) =>
                 /\ ret.confidence = "medium"
                 /\ ret.warnings = <<InherentVowelWarning>>
           /\ HasSubscript(arg) =>
                 /\ ret.confidence = "high"
                 /\ ret.warnings = << >>

\* a series-1 base with a subscript whose series a register shifter turned
C13_Witness ==
    /\ op = "romanizeCluster"
    /\ KnownBaseWithoutVowel(arg)
    /\ HasSubscript(arg)
    /\ ResolvedSeries(arg) # consonantRomanization[arg[1].char].series
    /\ ret.warnings = << >>

(***************************************************************************)
(* C14.  parseUserSpacedText never re-segments: its words are the maximal  *)
(* white-space-free tokens of the text, in order, one word per token,      *)
(* each marked isUserModified, and the method is 'user'.                   *)
(***************************************************************************)
\* the positions at which a maximal white-space-free token starts / ends
TokenStarts(text) ==
    {i \in 1..Len(text) :
        text[i] \notin REGEX_S /\ (i = 1 \/ text[i - 1] \in REGEX_S)}

TokenEnds(text) ==
    {i \in 1..Len(text) :
        text[i] \notin REGEX_S /\ (i = Len(text) \/ text[i + 1] \in REGEX_S)}

\* the k-th smallest element of a set of numbers
Kth(S, k) == CHOOSE x \in S : Cardinality({y \in S : y < x}) = k - 1

C14_NeverResegments ==
    op = "parseUserSpacedText" =>
        /\ ret.method = "user"
        /\ Len(ret.words) = Cardinality(TokenStarts(arg))
        /\ \A k \in 1..Len(ret.words) :
              /\ ret.words[k].text =
                    SubSeq(arg, Kth(TokenStarts(arg), k), Kth(TokenEnds(arg), k))
              /\ ret.words[k].isUserModified = TRUE

\* two tokens separated by a run of two spaces; one token is two clusters
\* that the segmenter would cut apart
C14_Witness ==
    /\ op = "parseUserSpacedText"
    /\ Len(ret.words) >= 2
    /\ \E i \in 1..(Len(arg) - 1) : arg[i] \in REGEX_S /\ arg[i + 1] \in REGEX_S
    /\ \E k \in 1..Len(ret.words) :
          /\ Len(parseKhmerText(ret.words[k].text)) >= 2
          /\ ret.words[k].confidence = "low"

(***************************************************************************)
(* C15.  parseUserSpacedText scores with the segmenter's oracle: a token   *)
(* has confidence high exactly when isKnownWord(token) is true, and low    *)
(* otherwise, in every state of the dictionary.                            *)
(***************************************************************************)
C15_SameOracle ==
    op = "parseUserSpacedText" =>
        \A k \in 1..Len(ret.words) :
            /\ ret.words[k].confidence \in {"high", "low"}
            /\ ret.words[k].confidence = "high" <=> isKnownWord(ret.words[k].text)

(***************************************************************************)
(* C16.  Dictionary fidelity of the romanization panel: for every          *)
(* non-space cluster whose text isKnownWord, the displayed entry comes     *)
(* from the dictionary entry of that text, with confidence high and no     *)
(* warnings, in every loading state of the dictionary.                     *)
(***************************************************************************)
C16_DictionaryFidelity ==
    op = "romanizedData" =>
        \A k \in 1..Len(ret.items) :
            (~ ret.items[k].isSpace /\ isKnownWord(ret.items[k].khmer)) =>
                /\ ret.items[k].confidence = "high"
                /\ ret.items[k].warnings = << >>
                /\ getDictionaryEntry(ret.items[k].khmer) # NULL
                /\ ret.items[k].english =
                       Some(Val(getDictionaryEntry(ret.items[k].khmer)).english)

(***************************************************************************)
(* C17.  Runs are grouped maximally: the clusters of parseKhmerText(s)     *)
(* concatenate to s, a numeral, other or punctuation cluster holds         *)
(* characters of its own class only, every character of such a class is    *)
(* in a cluster of that class, no two adjacent clusters are both numeral,  *)
(* both other or both punctuation, and every space or ZWSP character is a  *)
(* space cluster of exactly that one character.                            *)
(***************************************************************************)
RunTypes == {"numeral", "other", "punctuation"}

CharTypes(str) == {classifyChar(str[j]) : j \in 1..Len(str)}

C17_MaximalRuns ==
    op = "parseKhmerText" =>
        /\ Concat(ClusterTexts(ret)) = arg
        /\ \A k \in 1..Len(ret) :
              /\ ret[k].type \in RunTypes => CharTypes(ret[k].text) = {ret[k].type}
              /\ CharTypes(ret[k].text) \cap RunTypes # {} =>
                     ret[k].type \in RunTypes
              /\ "space" \in CharTypes(ret[k].text) =>
                     ret[k].type = "space" /\ Len(ret[k].text) = 1
              /\ ret[k].type = "space" => CharTypes(ret[k].text) = {"space"}
        /\ \A k \in 1..(Len(ret) - 1) :
              ret[k].type \in RunTypes => ret[k + 1].type # ret[k].type

\* a run of two numerals in one cluster, then a ZWSP cluster and a space
\* cluster next to each other
C17_Witness ==
    /\ op = "parseKhmerText"
    /\ Len(ret) = 3
    /\ ret[1].type = "numeral" /\ Len(ret[1].text) = 2
    /\ ret[2].text = <<ZWSP>> /\ ret[2].type = "space"
    /\ ret[3].text = <<SPACE>> /\ ret[3].type = "space"

(***************************************************************************)
(* SpecClassify: classifyChar applied to every code point of the Khmer     *)
(* block and to a space, a ZWSP and a Latin letter.                        *)
(***************************************************************************)
\* isKhmer: code >= 0x1780 && code <= 0x17FF
KhmerBlock == 6016..6143

ClassifyInputs == KhmerBlock \cup {SPACE, ZWSP, 65}

InitClassify ==
    /\ Fresh
    /\ op = "input"
    /\ arg \in {<<char>> : char \in ClassifyInputs}
    /\ ret = [kind |-> "none"]

ClassifyChar ==
    /\ op = "input"
    /\ op' = "classifyChar"
    /\ ret' = [type |-> classifyChar(arg[1])]
    /\ UNCHANGED <<arg, loaderVars, cacheVars, storeVars>>

NextClassify == ClassifyChar

SpecClassify == InitClassify /\ [][NextClassify]_vars

(***************************************************************************)
(* C18.  classifyChar follows the exact code point ranges: U+1780..U+17A2  *)
(* consonant, U+17A3..U+17B3 independent vowel, U+17B6..U+17C5 dependent   *)
(* vowel, U+17D2 coeng, the signs of U+17C6..U+17D3 (U+17C6..U+17CB among  *)
(* them) sign, U+17E0..U+17E9 numeral, U+17D4..U+17DA punctuation, space   *)
(* and ZWSP space, and everything else other.                              *)
(***************************************************************************)
RangeClass(char) ==
    IF char \in {SPACE, ZWSP} THEN "space"
    ELSE IF char \in 6016..6050 THEN "consonant"
    ELSE IF char \in 6051..6067 THEN "indep_vowel"
    ELSE IF char \in 6070..6085 THEN "vowel"
    ELSE IF char = 6098 THEN "coeng"
    ELSE IF char \in 6086..6099 THEN "sign"
    ELSE IF char \in 6100..6106 THEN "punctuation"
    ELSE IF char \in 6112..6121 THEN "numeral"
    ELSE "other"

C18_ExactRanges ==
    op = "classifyChar" => ret.type = RangeClass(arg[1])

(***************************************************************************)
(* C19.  Cluster class equals the base's class: the type of every cluster  *)
(* of parseKhmerText(s) is the type of its first component, consonant for  *)
(* a consonant base and independent vowel for an independent-vowel base;   *)
(* numeral, punctuation and other runs have their own class.               *)
(***************************************************************************)
C19_ClusterTypeOfBase ==
    op = "parseKhmerText" =>
        \A k \in 1..Len(ret) : ret[k].type = ret[k].components[1].type

(***************************************************************************)
(* C20.  Empty input gives the vacuous default: for a text that is empty   *)
(* or holds only whitespace and ZWSP characters, segmentText returns no    *)
(* words, overallConfidence high and method dictionary, and leaves the     *)
(* dictionary caches as they were, uninitialised.                          *)
(***************************************************************************)
Blank(text) == \A j \in 1..Len(text) : text[j] \in WHITESPACE

C20_EmptyInput ==
    (op = "segmentText" /\ Blank(arg)) =>
        /\ ret.words = << >>
        /\ ret.overallConfidence = "high"
        /\ ret.method = "dictionary"
        /\ ret.originalText = arg
        /\ dictionaryWords = NULL
        /\ dictionaryMap = NULL

\* a tab and a ZWSP, with the word list and the extended dictionary loaded
C20_Witness ==
    /\ op = "segmentText"
    /\ arg = <<TAB, ZWSP>>
    /\ wordListSet # NULL
    /\ extendedDictionary # NULL
    /\ ret.words = << >>

(***************************************************************************)
(* C21.  overallConfidence thresholds: for a non-empty word list with h    *)
(* high-confidence words out of n, segmentText and parseUserSpacedText     *)
(* report high iff 5h >= 4n, medium iff 2h >= n and 5h < 4n, and low iff   *)
(* 2h < n; exactly 80% is high and exactly 50% is medium.                  *)
(***************************************************************************)
C21_Thresholds ==
    (op \in {"segmentText", "parseUserSpacedText"} /\ Len(ret.words) > 0) =>
        LET h == Cardinality({k \in 1..Len(ret.words) :
                                  ret.words[k].confidence = "high"})
            n == Len(ret.words)
        IN /\ ret.overallConfidence = "high" <=> 5 * h >= 4 * n
           /\ ret.overallConfidence = "medium" <=> (2 * h >= n /\ 5 * h < 4 * n)
           /\ ret.overallConfidence = "low" <=> 2 * h < n

\* four high-confidence words out of five, exactly 80%
C21_Witness ==
    /\ op = "segmentText"
    /\ Len(ret.words) = 5
    /\ Cardinality({k \in 1..5 : ret.words[k].confidence = "high"}) = 4
    /\ ret.overallConfidence = "high"

(***************************************************************************)
(* Where a word of a scan lies in a cluster list: the character offset     *)
(* after p clusters, the number of clusters before an offset, and the      *)
(* sizes of the known spans of 1..maxClusters clusters that start after p  *)
(* clusters.                                                               *)
(***************************************************************************)
ClusterOffsets(clusters) ==
    [p \in 0..Len(clusters) |-> Len(Concat(ClusterTexts(SubSeq(clusters, 1, p))))]

ClusterAt(offsets, offset) == CHOOSE p \in DOMAIN offsets : offsets[p] = offset

KnownSpans(clusters, p) ==
    {m \in 1..Min(maxClusters, Len(clusters) - p) :
        isKnownWord(clustersToText(clusters, p, p + m))}

Max(ns) == CHOOSE n \in ns : \A m \in ns : m <= n

(***************************************************************************)
(* C22.  Longest match first in forwardMaxMatch: a word of the forward     *)
(* scan that starts where some span of 1..8 clusters is known is high and  *)
(* is the longest such span, the next word starts right after it, and no   *)
(* high word spans more than 8 clusters, so that a dictionary word of 9    *)
(* clusters is never matched as a whole.                                   *)
(***************************************************************************)
C22_LongestMatchFirst ==
    Segmented =>
        LET cl == CleanClusters
            offsets == ClusterOffsets(cl)
            F == forwardMaxMatch(cl)
        IN \A k \in 1..Len(F) :
               LET p == ClusterAt(offsets, F[k].startIndex)
                   q == ClusterAt(offsets, F[k].endIndex)
                   spans == KnownSpans(cl, p)
               IN /\ F[k].text = clustersToText(cl, p, q)
                  /\ spans # {} =>
                        /\ F[k].confidence = "high"
                        /\ q - p = Max(spans)
                  /\ F[k].confidence = "high" => q - p \in spans
                  /\ k < Len(F) => F[k + 1].startIndex = F[k].endIndex

\* a two-cluster word is taken where its first cluster alone is a word too
C22_Witness ==
    /\ Segmented
    /\ arg = <<KHA, KA, KHA>>
    /\ KnownSpans(CleanClusters, 1) = {1, 2}
    /\ ForwardResult[2].text = <<KA, KHA>>

(***************************************************************************)
(* C23.  Unknown-span accumulation in forwardMaxMatch: a word of the       *)
(* forward scan that starts at a position p where no span of 1..8 clusters *)
(* is known is low, has no dictionary match and ends at the first later    *)
(* position where a known span begins, or at the end of the input; so a    *)
(* low word is never followed by another low word.                         *)
(***************************************************************************)
C23_UnknownSpan ==
    Segmented =>
        LET cl == CleanClusters
            offsets == ClusterOffsets(cl)
            F == forwardMaxMatch(cl)
        IN \A k \in 1..Len(F) :
               LET p == ClusterAt(offsets, F[k].startIndex)
                   q == ClusterAt(offsets, F[k].endIndex)
                   later == {r \in (p + 1)..Len(cl) :
                                r = Len(cl) \/ KnownSpans(cl, r) # {}}
               IN /\ KnownSpans(cl, p) = {} =>
                        /\ F[k].confidence = "low"
                        /\ F[k].dictionaryMatch = NULL
                        /\ q > p
                        /\ q \in later
                        /\ \A r \in later : q <= r
                        /\ F[k].text = clustersToText(cl, p, q)
                  /\ F[k].confidence = "low" => KnownSpans(cl, p) = {}
                  /\ (F[k].confidence = "low" /\ k < Len(F)) =>
                        /\ F[k + 1].startIndex = F[k].endIndex
                        /\ F[k + 1].confidence = "high"

\* two unknown clusters in one low word, before a known word
C23_Witness ==
    /\ Segmented
    /\ Len(ForwardResult) >= 2
    /\ ForwardResult[1].confidence = "low"
    /\ Len(parseKhmerText(ForwardResult[1].text)) = 2
    /\ ForwardResult[2].confidence = "high"

(***************************************************************************)
(* C24.  backwardMaxMatch is the mirror of forwardMaxMatch: scanning from  *)
(* the end, it takes the longest known span of 1..8 clusters that ends at  *)
(* the position, and otherwise one low span that reaches back to the       *)
(* nearest position where a known span ends, or to the start of the input. *)
(* MirrorScan is that policy, with candidates read in text order; a word   *)
(* is compared by the clusters it covers and its confidence.               *)
(***************************************************************************)
KnownSpansEndingAt(clusters, pos) ==
    {m \in 1..Min(maxClusters, pos) :
        isKnownWord(clustersToText(clusters, pos - m, pos))}

RECURSIVE MirrorScan(_, _, _)
MirrorScan(clusters, pos, results) ==
    IF pos = 0 THEN results
    ELSE LET spans == KnownSpansEndingAt(clusters, pos)
         IN IF spans # {}
            THEN MirrorScan(clusters, pos - Max(spans),
                     <<[from |-> pos - Max(spans), to |-> pos,
                        confidence |-> "high"]>> \o results)
            ELSE LET start == Max({r \in 0..(pos - 1) :
                                      r = 0 \/ KnownSpansEndingAt(clusters, r) # {}})
                 IN MirrorScan(clusters, start,
                        <<[from |-> start, to |-> pos, confidence |-> "low"]>>
                            \o results)

C24_BackwardMirrorsForward ==
    Segmented =>
        LET cl == CleanClusters
            offsets == ClusterOffsets(cl)
            B == backwardMaxMatch(cl)
        IN [k \in 1..Len(B) |->
               [from |-> ClusterAt(offsets, B[k].startIndex),
                to |-> ClusterAt(offsets, B[k].endIndex),
                confidence |-> B[k].confidence]]
           = MirrorScan(cl, Len(cl), << >>)

(***************************************************************************)
(* C25.  Every cluster that is not a space, other, numeral or punctuation  *)
(* cluster starts with a base: its first component is a consonant or an    *)
(* independent vowel, and no dependent vowel, sign or coeng is a cluster   *)
(* of its own.                                                             *)
(***************************************************************************)
BaseTypes == {"consonant", "indep_vowel"}

StrayTypes == {"vowel", "sign", "coeng"}

LastComponent(cluster) == cluster.components[Len(cluster.components)]

TypesOf(cluster) == [j \in 1..Len(cluster.components) |-> cluster.components[j].type]

\* base (coeng subscript)^pairs vowel^vowels sign*
Shaped(types) ==
    \E pairs \in 0..Len(types), vowels \in 0..Len(types) :
        /\ 1 + 2 * pairs + vowels <= Len(types)
        /\ types[1] \in BaseTypes
        /\ \A j \in 2..Len(types) :
              types[j] =
                  IF j <= 1 + 2 * pairs
                  THEN (IF j % 2 = 0 THEN "coeng" ELSE "subscript")
                  ELSE IF j <= 1 + 2 * pairs + vowels THEN "vowel"
                  ELSE "sign"

C26_CoengPolicy ==
    op = "parseKhmerText" =>
        LET offsets == ClusterOffsets(ret)
        IN /\ \A k \in 1..Len(ret) :
                 ret[k].type = "consonant" =>
                     /\ Shaped(TypesOf(ret[k]))
                     /\ \A j \in 1..Len(ret[k].components) :
                           LET comp == ret[k].components[j]
                           IN /\ comp.type = "subscript" => comp.char \in CONSONANTS
                              /\ comp.type = "coeng" <=> comp.char = COENG
           /\ \A i \in 1..Len(arg) :
                 (arg[i] = COENG /\ (i = Len(arg) \/ arg[i + 1] \notin CONSONANTS)) =>
                     \E k \in 1..Len(ret) :
                         /\ offsets[k - 1] = i - 1
                         /\ ret[k].text = <<COENG>>
                         /\ ret[k].type = "coeng"

\* a base with a subscript, then a coeng at the end of the text
C26_Witness ==
    /\ op = "parseKhmerText"
    /\ arg = <<6016, COENG, 6016, COENG>>
    /\ Len(ret) = 2
    /\ TypesOf(ret[1]) = <<"consonant", "coeng", "subscript">>
    /\ ret[2].type = "coeng"

(***************************************************************************)
(* C27.  The oracle only becomes more complete over a session: once        *)
(* isKnownWord(w) has returned true, every later isKnownWord(w) returns    *)
(* true, whatever loader events and queries come in between and whatever   *)
(* the fetched word list contains.  A call that has returned leaves the    *)
(* caches built, and from then on a call changes nothing but its result,   *)
(* so the property is stated step by step: with the caches built, no step  *)
(* takes a word from known to unknown.                                     *)
(***************************************************************************)
C27_OracleMonotone ==
    [][\A w \in ProbeTexts :
          (dictionaryWords # NULL /\ isKnownWord(w)) => isKnownWord(w)']_vars

(***************************************************************************)
(* C28.  A low-confidence word is never a known word: every word of        *)
(* segmentText(text).words with confidence low has a text for which        *)
(* isKnownWord is false at the time of the call, unknown spans of more     *)
(* than maxClusters clusters whose whole text is a dictionary word         *)
(* included.                                                               *)
(***************************************************************************)
C28_LowIsUnknown ==
    op = "segmentText" =>
        \A k \in 1..Len(ret.words) :
            ret.words[k].confidence = "low" => ~ isKnownWord(ret.words[k].text)

(***************************************************************************)
(* The khmer keys of an entry list, and whether no key is held twice.      *)
(***************************************************************************)
KeysOf(entries) == { entries[k].khmer : k \in 1..Len(entries) }

UniqueKeys(entries) == Cardinality(KeysOf(entries)) = Len(entries)

\* the keys an imported array asks to store
ImportedKeys(items) ==
    { items[k].khmer : k \in { j \in 1..Len(items) :
          /\ items[j].json = "object"
          /\ items[j].khmerType = "string"
          /\ items[j].khmer # << >> } }

(***************************************************************************)
(* C29.  Key uniqueness of the user dictionary: from an empty store, after *)
(* any sequence of addUserWord, removeUserWord, importFromJSON and         *)
(* clearUserDictionary the store holds at most one entry per khmer key;    *)
(* addUserWord or an import of an existing key replaces the entry where it *)
(* stands and adds no second one; removeUserWord(k) returns true exactly   *)
(* when an entry for k existed, and leaves no entry for k.                 *)
(***************************************************************************)
C29_KeyUniqueness ==
    [][LET before == getUserDictionary
           after == getUserDictionary'
       IN /\ UniqueKeys(after)
          /\ (op' = "addUserWord" /\ FindIndex(before, arg') >= 1) =>
                /\ Len(after) = Len(before)
                /\ after[FindIndex(before, arg')] = ret'
          /\ (op' = "importFromJSON" /\ ~ ret'.thrown) =>
                \A k \in 1..Len(before) :
                    /\ Len(after) >= Len(before)
                    /\ after[k].khmer = before[k].khmer
                    /\ before[k].khmer \in ImportedKeys(ret'.jsonStr.items) =>
                           after[k].english = "import"
          /\ op' = "removeUserWord" =>
                /\ ret'.removed <=> FindIndex(before, arg') >= 1
                /\ FindIndex(after, arg') = 0]_vars

(***************************************************************************)
(* C30.  A failed import leaves the user dictionary unchanged:             *)
(* importFromJSON throws exactly when the string is not valid JSON, is not *)
(* an array, or holds an element on which reading item.khmer fails (null), *)
(* and the stored dictionary is then what it was before the call.  When it *)
(* does not throw it returns the number of imported keys the dictionary    *)
(* did not hold, entries that replace an existing key not counted, which   *)
(* is the number of entries the stored dictionary grows by.                *)
(***************************************************************************)
C30_FailedImportUnchanged ==
    [][op' = "importFromJSON" =>
          LET jsonStr == ret'.jsonStr
              before == getUserDictionary
              after == getUserDictionary'
              fails == \/ jsonStr.kind # "array"
                       \/ \E k \in 1..Len(jsonStr.items) :
                              jsonStr.items[k].json = "null"
              newKeys == ImportedKeys(jsonStr.items) \ KeysOf(before)
          IN /\ ret'.thrown <=> fails
             /\ ret'.thrown => userDictionary' = userDictionary
             /\ ~ ret'.thrown =>
                   /\ ret'.addedCount = Cardinality(newKeys)
                   /\ \/ userDictionary' = userDictionary
                      \/ /\ Len(after) = Len(before) + ret'.addedCount
                         /\ KeysOf(after) = KeysOf(before) \cup newKeys]_vars

\* an import of a word followed by null has thrown, over a stored word
C30_Witness ==
    /\ op = "importFromJSON"
    /\ ret.thrown
    /\ ret.jsonStr.kind = "array"
    /\ Len(ret.jsonStr.items) = 2
    /\ ret.jsonStr.items[1].khmer = <<KHA>>
    /\ ret.jsonStr.items[2].json = "null"
    /\ KeysOf(getUserDictionary) = { <<KA>> }

====
